---- MODULE Spec2Model ----
(***************************************************************************)
(* The download orchestration and progress tracking of VideoAudit AI:      *)
(* TT_batch_downloader/main.py (DownloadTracker, TikTokBatchDownloader).   *)
(*                                                                         *)
(* Strings are sequences of one-character strings; a tracking file is the  *)
(* sequence of characters on disk, written by csv.writer and read back by  *)
(* csv.DictReader, both with the default (excel) dialect.                  *)
(***************************************************************************)
EXTENDS Integers, Sequences, FiniteSets, TLC

(***************************************************************************)
(* Characters                                                              *)
(***************************************************************************)
COMMA == ","
DQUOTE == "\""
CR == "CR"
LF == "LF"
\* the reader's end-of-line marker (EOL in _csv.c), never a file character
EOL == "EOL"
\* absent file (a sequence that is no string of characters, so that it
\* compares with the content of a file), and Python's None
NoFile == <<"NoFile">>
None == "None"
\* DictReader's restval, None: the value of a field the row does not have;
\* a sequence that is no string of characters
restval == <<"None">>

\* the prefix every extracted URL starts with: url.startswith("http")
HTTP == <<"h", "t", "t", "p">>

\* the header row written by _ensure_csv_exists: ["url", "Video Path"]
URL_KEY == <<"u", "r", "l">>
VIDEO_PATH_KEY == <<"V", "i", "d", "e", "o", " ", "P", "a", "t", "h">>

RECURSIVE Concat(_)
Concat(ss) == IF ss = <<>> THEN <<>> ELSE Head(ss) \o Concat(Tail(ss))

startswith(s, p) == Len(s) >= Len(p) /\ SubSeq(s, 1, Len(p)) = p

(***************************************************************************)
(* csv.writer, excel dialect: delimiter ',', quotechar '"', doublequote,   *)
(* lineterminator '\r\n', QUOTE_MINIMAL.                                   *)
(***************************************************************************)
\* a field is quoted when it holds the delimiter, the quotechar or a
\* character of the line terminator
NeedsQuote(f) == \E i \in 1..Len(f) : f[i] \in {COMMA, DQUOTE, CR, LF}

\* a writer that leaves a quote inside a quoted field as it is
DoubleQuotes_single(f) == f

RECURSIVE DoubleQuotes(_)
DoubleQuotes(f) ==
    IF f = <<>> THEN <<>>
    ELSE (IF Head(f) = DQUOTE THEN <<DQUOTE, DQUOTE>> ELSE <<Head(f)>>)
         \o DoubleQuotes(Tail(f))

\* a writer that joins the fields without quoting them
WriteField_unquoted(f) == f

WriteField(f) ==
    IF NeedsQuote(f) THEN <<DQUOTE>> \o DoubleQuotes(f) \o <<DQUOTE>> ELSE f

RECURSIVE JoinFields(_)
JoinFields(fields) ==
    IF fields = <<>> THEN <<>>
    ELSE IF Len(fields) = 1 THEN WriteField(fields[1])
    ELSE WriteField(Head(fields)) \o <<COMMA>> \o JoinFields(Tail(fields))

\* writer.writerow(fields): a lone empty field is written as ""
writerow(fields) ==
    (IF fields = << <<>> >> THEN <<DQUOTE, DQUOTE>> ELSE JoinFields(fields))
    \o <<CR, LF>>

(***************************************************************************)
(* csv.reader, excel dialect (not strict, no escapechar, no                *)
(* skipinitialspace): the state machine of parse_process_char, fed the     *)
(* characters of each line and EOL at the end of each line.  The file is   *)
(* opened with newline="", so lines end at \r\n, \r or \n and keep their   *)
(* terminator.                                                             *)
(***************************************************************************)
ReaderStart == [st |-> "START_RECORD", field |-> <<>>, fields |-> <<>>,
                rows |-> <<>>, err |-> FALSE]

parse_save_field(r) ==
    [r EXCEPT !.fields = Append(r.fields, r.field), !.field = <<>>]

parse_add_char(r, c) == [r EXCEPT !.field = Append(r.field, c)]

AfterEol(c) == IF c = EOL THEN "START_RECORD" ELSE "EAT_CRNL"

StartField(r, c) ==
    IF c \in {LF, CR, EOL}
    THEN [parse_save_field(r) EXCEPT !.st = AfterEol(c)]
    ELSE IF c = DQUOTE THEN [r EXCEPT !.st = "IN_QUOTED_FIELD"]
    ELSE IF c = COMMA THEN [parse_save_field(r) EXCEPT !.st = "START_FIELD"]
    ELSE [parse_add_char(r, c) EXCEPT !.st = "IN_FIELD"]

parse_process_char(r, c) ==
    CASE r.err -> r
      [] ~r.err /\ r.st = "START_RECORD" ->
            IF c = EOL THEN r
            ELSE IF c \in {LF, CR} THEN [r EXCEPT !.st = "EAT_CRNL"]
            ELSE StartField(r, c)
      [] ~r.err /\ r.st = "START_FIELD" -> StartField(r, c)
      [] ~r.err /\ r.st = "IN_FIELD" ->
            IF c \in {LF, CR, EOL}
            THEN [parse_save_field(r) EXCEPT !.st = AfterEol(c)]
            ELSE IF c = COMMA
            THEN [parse_save_field(r) EXCEPT !.st = "START_FIELD"]
            ELSE parse_add_char(r, c)
      [] ~r.err /\ r.st = "IN_QUOTED_FIELD" ->
            IF c = EOL THEN r
            ELSE IF c = DQUOTE THEN [r EXCEPT !.st = "QUOTE_IN_QUOTED_FIELD"]
            ELSE parse_add_char(r, c)
      [] ~r.err /\ r.st = "QUOTE_IN_QUOTED_FIELD" ->
            IF c = DQUOTE
            THEN [parse_add_char(r, c) EXCEPT !.st = "IN_QUOTED_FIELD"]
            ELSE IF c = COMMA
            THEN [parse_save_field(r) EXCEPT !.st = "START_FIELD"]
            ELSE IF c \in {LF, CR, EOL}
            THEN [parse_save_field(r) EXCEPT !.st = AfterEol(c)]
            ELSE [parse_add_char(r, c) EXCEPT !.st = "IN_FIELD"]
      [] ~r.err /\ r.st = "EAT_CRNL" ->
            IF c \in {LF, CR} THEN r
            ELSE IF c = EOL THEN [r EXCEPT !.st = "START_RECORD"]
            ELSE [r EXCEPT !.err = TRUE]

\* Reader_iternext returns the record once the state is START_RECORD again
EndOfLine(r) ==
    LET r1 == parse_process_char(r, EOL)
    IN  IF ~r1.err /\ r1.st = "START_RECORD"
        THEN [r1 EXCEPT !.rows = Append(r1.rows, r1.fields),
                        !.fields = <<>>, !.field = <<>>]
        ELSE r1

\* position i is the last character of a line of the file
IsLineEnd(content, i) ==
    \/ i = Len(content)
    \/ content[i] = LF
    \/ content[i] = CR /\ content[i + 1] # LF

\* the reader after the character at position i, and after the EOL that
\* follows it when the line ends there
ReadChar(content, i, r) ==
    LET r1 == parse_process_char(r, content[i])
    IN  IF IsLineEnd(content, i) THEN EndOfLine(r1) ELSE r1

\* end of input: a pending field or an open quote still yields a record
EndOfInput(r) ==
    IF ~r.err /\ (r.field # <<>> \/ r.st = "IN_QUOTED_FIELD")
    THEN [r EXCEPT !.rows = Append(r.rows, Append(r.fields, r.field))]
    ELSE r

\* the loop over the characters; each state of the reader is computed once
RECURSIVE ReaderRun(_, _, _)
ReaderRun(content, i, r) ==
    IF r.err \/ i > Len(content) THEN EndOfInput(r)
    ELSE CHOOSE end \in {ReaderRun(content, i + 1, r2) :
                            r2 \in {ReadChar(content, i, r)}} : TRUE

\* csv.reader(f): the records of the file, or an error
reader(content) ==
    CHOOSE end \in {ReaderRun(c, 1, ReaderStart) : c \in {content}} : TRUE

(***************************************************************************)
(* csv.DictReader: the first record is the field names, empty records are  *)
(* skipped, a record shorter than the field names gets None (restval).     *)
(***************************************************************************)
\* dict(zip(fieldnames, row)).get(key): the last column named key wins
DictGet(fieldnames, row, key) ==
    LET cols == {j \in 1..Len(fieldnames) : fieldnames[j] = key}
    IN  IF cols = {} THEN restval
        ELSE LET j == CHOOSE k \in cols : \A m \in cols : m <= k
             IN  IF j <= Len(row) THEN row[j] ELSE restval

\* the values row.get(key) of the data rows, in file order
DictReaderColumn(content, key) ==
    LET rows == reader(content).rows
    IN  IF rows = <<>> THEN <<>>
        ELSE LET data == SelectSeq(Tail(rows), LAMBDA row : row # <<>>)
             IN  [k \in 1..Len(data) |-> DictGet(rows[1], data[k], key)]

\* a filter that keeps every row
Truthy_any(v) == TRUE

\* truthiness of row.get("url"): neither None nor the empty string
Truthy(v) == v # restval /\ v # <<>>

(***************************************************************************)
(* Bounds of the model                                                     *)
(***************************************************************************)
\* runs of download_all against one output root
MaxRuns == 2
\* length of the extracted URL list
MaxLen == 2
\* length of the URL list in the single-run specification
LongLen == 5
\* rows of a tracking file that exists before a tracker is constructed
MaxInitRows == 2
\* record_download calls on one tracker
MaxRecords == 2

\* rows of a parsed data frame
MaxCells == 2
\* pieces the text of an input file is put together from
MaxChunks == 2
\* members of a ZIP archive
MaxMembers == 2

\* DownloadConfig.retry_delay, the default
RETRY_DELAY == 5
\* @rate_limit(delay=1.0), in seconds
RATE_LIMIT_DELAY == 1
\* run_video_processing.config.MAX_RETRIES, and the delay=1.0 of the
\* decorator of label_video_with_gemini, in seconds
MAX_RETRIES == 3
GEMINI_DELAY == 1
\* the longest retry loop looked at
MaxGeminiRetries == 4
\* the clock when the process starts, and the end of the observation
StartTime == 2
MaxTime == 9

\* the values of --max-videos and --max-retries the runs are checked with
MAX_VIDEOS_CHOICES == {1, 2}
MAX_RETRIES_CHOICES == {1, 3}

\* URLs the extractor can return: strings starting with http; a cell of a
\* quoted CSV column may hold the delimiter, a quote or a line break
U_PLAIN == HTTP \o <<"a">>
U_COMMA == HTTP \o <<COMMA, "b">>
U_QUOTE == HTTP \o <<DQUOTE>>
U_BREAK == HTTP \o <<LF, "c">>
U_UPPER == HTTP \o <<"A">>
URLS == {U_PLAIN, U_COMMA}
LONG_URLS == {U_PLAIN, U_BREAK}
TRACKER_URLS == {U_PLAIN, U_COMMA, U_QUOTE, U_BREAK, U_UPPER}

Range(f) == {f[x] : x \in DOMAIN f}

\* the sequences over S of length at most n
SeqsUpTo(S, n) == UNION {[1..k -> S] : k \in 0..n}

\* the shard directories output_path/video{k} the model can name
SHARDS == 0..(LongLen + MaxLen + 2)

\* rows of a tracking file that the tracker did not write, each with the
\* url field it holds (restval: no url field at all)
S_GOOD == [raw |-> U_UPPER \o <<COMMA, "p", CR, LF>>, url |-> U_UPPER]
S_HAND_QUOTED == [raw |-> <<DQUOTE>> \o U_COMMA \o <<DQUOTE, COMMA, "p", LF>>,
                  url |-> U_COMMA]
S_URL_ONLY == [raw |-> U_PLAIN \o <<CR, LF>>, url |-> U_PLAIN]
S_EMPTY_URL == [raw |-> <<COMMA, "p", CR, LF>>, url |-> <<>>]
S_QUOTED_EMPTY == [raw |-> <<DQUOTE, DQUOTE, CR, LF>>, url |-> <<>>]
S_BLANK == [raw |-> <<CR, LF>>, url |-> restval]
SEED_ROWS == {S_GOOD, S_HAND_QUOTED, S_URL_ONLY, S_EMPTY_URL, S_QUOTED_EMPTY,
              S_BLANK}

\* the tracking files found before the first tracker: none, or a header
\* row (the tracker's, or one without the url column) and some rows
NoSeed == [header |-> "none", rows |-> <<>>]
Seeds(headers, n) ==
    {NoSeed} \cup {[header |-> h, rows |-> r] :
                     h \in headers, r \in SeqsUpTo(SEED_ROWS, n)}

(***************************************************************************)
(* DownloadTracker                                                         *)
(***************************************************************************)
\* the characters of a tracking file found before the first tracker
SeedFile(sd) ==
    IF sd.header = "none" THEN NoFile
    ELSE (IF sd.header = "std" THEN writerow(<<URL_KEY, VIDEO_PATH_KEY>>)
          ELSE writerow(<<VIDEO_PATH_KEY>>))
         \o Concat([k \in 1..Len(sd.rows) |-> sd.rows[k].raw])

\* a tracker that never reads its file
load_existing_urls_unread(file) == {}

\* _load_existing_urls: {row["url"] for row in reader if row.get("url")};
\* an exception while reading leaves the set empty
load_existing_urls(file) ==
    IF file = NoFile \/ reader(file).err THEN {}
    ELSE {v \in Range(DictReaderColumn(file, URL_KEY)) : Truthy(v)}

\* a tracker that opens its file for writing whether it exists or not
ensure_csv_exists_always(file) == writerow(<<URL_KEY, VIDEO_PATH_KEY>>)

\* a tracker that creates a missing file and writes nothing into it
ensure_csv_exists_empty(file) == IF file = NoFile THEN <<>> ELSE file

\* _ensure_csv_exists: a missing file is created with the header row
ensure_csv_exists(file) ==
    IF file = NoFile THEN writerow(<<URL_KEY, VIDEO_PATH_KEY>>) ELSE file

\* DownloadTracker(csv_path): the tracker and the file it leaves on disk
DownloadTracker(csv_path, file) ==
    [csv_path |-> csv_path,
     existing_urls |-> load_existing_urls(file),
     file |-> ensure_csv_exists(file)]

\* a tracker that takes every URL for new
is_processed_never(existing_urls, url) == FALSE

\* is_processed: url in self.existing_urls
is_processed(existing_urls, url) == url \in existing_urls

\* a record_download that lets the failure of the append out
record_download_raises(file, existing_urls, url, video_path, write_ok) ==
    IF write_ok
    THEN [file |-> file \o writerow(<<url, video_path>>),
          existing_urls |-> existing_urls \cup {url},
          raised |-> FALSE]
    ELSE [file |-> file, existing_urls |-> existing_urls, raised |-> TRUE]

\* a record_download that appends the row and forgets the URL
record_download_no_add(file, existing_urls, url, video_path, write_ok) ==
    IF write_ok
    THEN [file |-> file \o writerow(<<url, video_path>>),
          existing_urls |-> existing_urls,
          raised |-> FALSE]
    ELSE [file |-> file, existing_urls |-> existing_urls, raised |-> FALSE]

\* record_download: the append either succeeds, or raises inside the try
\* block and is logged; nothing is raised to the caller
record_download(file, existing_urls, url, video_path, write_ok) ==
    IF write_ok
    THEN [file |-> file \o writerow(<<url, video_path>>),
          existing_urls |-> existing_urls \cup {url},
          raised |-> FALSE]
    ELSE [file |-> file, existing_urls |-> existing_urls, raised |-> FALSE]

(***************************************************************************)
(* TikTokBatchDownloader                                                   *)
(***************************************************************************)
\* a shard index taken from the 1-based position
subfolder_index_of_one_based(index, per_folder) ==
    ((index + 1) \div per_folder) + 1

\* subfolder_index = (index // max_videos_per_folder) + 1
subfolder_index_of(index, per_folder) == (index \div per_folder) + 1

\* str(n) for a small n
Digits == <<"0", "1", "2", "3", "4", "5", "6", "7", "8", "9">>
RECURSIVE str(_)
str(n) == IF n < 10 THEN <<Digits[n + 1]>>
          ELSE str(n \div 10) \o <<Digits[(n % 10) + 1]>>

\* video.downloaded_path = str(download_path / f"{info['id']}.mp4"), the id
\* being what follows the prefix of the URL
VideoPath(dest, url) ==
    <<"v">> \o str(dest) \o <<"/">> \o SubSeq(url, Len(HTTP) + 1, Len(url))

\* a sleep after every failed attempt, the last one too
retry_after_always(attempt_no, retries) == attempt_no < retries

\* _download_single sleeps after a failed attempt if attempts remain
retry_after(attempt_no, retries) == attempt_no < retries - 1

\* a retry loop that makes one pass more than max_retries
more_attempts_one_more(attempt_no, retries) == attempt_no < retries

\* for attempt in range(max_retries): another attempt follows this one
more_attempts(attempt_no, retries) == attempt_no + 1 < retries

\* the inputs of a run: a missing file, an archive or a text file, with the
\* URLs its content yields
Inputs(urls, len) ==
    {[exists |-> FALSE, kind |-> "text", urls |-> <<>>]}
    \cup {[exists |-> TRUE, kind |-> k, urls |-> l] :
            k \in {"zip", "text"}, l \in SeqsUpTo(urls, len)}

\* extract_from_file: FileNotFoundError for a missing file, ValueError for
\* an archive without URLs, else the list (empty when the regex fallback
\* finds nothing in a text file)
extract_from_file(input) ==
    IF ~input.exists THEN [raised |-> TRUE, urls |-> <<>>]
    ELSE IF input.kind = "zip" /\ input.urls = <<>>
    THEN [raised |-> TRUE, urls |-> <<>>]
    ELSE [raised |-> FALSE, urls |-> input.urls]

\* a download_all without the check of the empty list
extraction_failed_raised_only(ex) == ex.raised

\* download_all returns the structured failure before anything is created
extraction_failed(ex) == ex.raised \/ ex.urls = <<>>

(***************************************************************************)
(* URLExtractor, and GetTiktokVideo._get_url_list                          *)
(***************************************************************************)
\* cells of a data frame that are no strings: a missing value, a number
NaN == <<"NaN">>
IntCell == <<"int">>
\* pd.read_csv raised
ParseError == [error |-> TRUE, columns |-> <<>>]

isinstance_str(v) == v \notin {NaN, IntCell}

\* str.lower, for the capital letters that occur in the model
lower(s) ==
    [k \in 1..Len(s) |->
        CASE s[k] = "U" -> "u" [] s[k] = "R" -> "r" [] s[k] = "L" -> "l"
          [] s[k] = "I" -> "i" [] s[k] = "N" -> "n" [] s[k] = "K" -> "k"
          [] s[k] = "A" -> "a" [] s[k] = "Q" -> "q" [] s[k] = "V" -> "v"
          [] s[k] = "C" -> "c" [] s[k] = "T" -> "t" [] s[k] = "P" -> "p"
          [] OTHER -> s[k]]

\* sub in s
contains(s, sub) ==
    \E i \in 1..(Len(s) - Len(sub) + 1) : SubSeq(s, i, i + Len(sub) - 1) = sub

LINK_KEY == <<"l", "i", "n", "k">>
\* any(keyword in col.lower() for keyword in ["url", "link"])
has_keyword(name) ==
    contains(lower(name), URL_KEY) \/ contains(lower(name), LINK_KEY)

\* df.columns, by position; 0 stands for no column
ColumnNamed(df, name) ==
    LET cols == {j \in 1..Len(df.columns) : df.columns[j].name = name}
    IN  IF cols = {} THEN 0 ELSE CHOOSE j \in cols : \A k \in cols : j <= k

KeywordColumn(df) ==
    LET cols == {j \in 1..Len(df.columns) : has_keyword(df.columns[j].name)}
    IN  IF cols = {} THEN 0 ELSE CHOOSE j \in cols : \A k \in cols : j <= k

\* series.dropna().tolist()
dropna(cells) == SelectSeq(cells, LAMBDA v : v # NaN)

\* series.head(n)
head(cells, n) == SubSeq(cells, 1, IF Len(cells) < n THEN Len(cells) ELSE n)

\* not df.empty: the frame has a column and a row
NotEmpty(df) == df.columns # <<>> /\ df.columns[1].cells # <<>>

\* a search that looks at the names with url or link before the name url
find_url_column_keyword_first(df) ==
    IF KeywordColumn(df) # 0 THEN KeywordColumn(df)
    ELSE IF NotEmpty(df)
            /\ LET sample == head(dropna(df.columns[1].cells), 5)
               IN  \E k \in 1..Len(sample) :
                      isinstance_str(sample[k]) /\ startswith(sample[k], HTTP)
    THEN 1
    ELSE 0

\* URLExtractor._find_url_column: the column named url, else the first
\* column with url or link in its name, else the first column if one of
\* its first five values is a string starting with http
find_url_column(df) ==
    IF ColumnNamed(df, URL_KEY) # 0 THEN ColumnNamed(df, URL_KEY)
    ELSE IF KeywordColumn(df) # 0 THEN KeywordColumn(df)
    ELSE IF NotEmpty(df)
            /\ LET sample == head(dropna(df.columns[1].cells), 5)
               IN  \E k \in 1..Len(sample) :
                      isinstance_str(sample[k]) /\ startswith(sample[k], HTTP)
    THEN 1
    ELSE 0

\* a _try_read_csv that keeps every string of the column
try_read_csv_unfiltered(df) ==
    IF df.error THEN [raised |-> TRUE, urls |-> <<>>]
    ELSE IF find_url_column(df) = 0 THEN [raised |-> FALSE, urls |-> <<>>]
    ELSE [raised |-> FALSE,
          urls |-> SelectSeq(dropna(df.columns[find_url_column(df)].cells),
                             LAMBDA v : isinstance_str(v))]

\* URLExtractor._try_read_csv: the strings of the URL column that start
\* with http; the exception of pd.read_csv is passed on
try_read_csv(df) ==
    IF df.error THEN [raised |-> TRUE, urls |-> <<>>]
    ELSE IF find_url_column(df) = 0 THEN [raised |-> FALSE, urls |-> <<>>]
    ELSE [raised |-> FALSE,
          urls |-> SelectSeq(dropna(df.columns[find_url_column(df)].cells),
                             LAMBDA v : isinstance_str(v)
                                        /\ startswith(v, HTTP))]

\* URLExtractor.ENCODINGS and URLExtractor.SEPARATORS, and the encodings
\* of the regex fallback of GetTiktokVideo
ENCODINGS == <<"utf-8", "iso-8859-1", "gbk", "gb2312", "latin1">>
SEPARATORS == <<COMMA, ";", "\t">>
LEGACY_REGEX_ENCODINGS == <<"utf-8", "iso-8859-1", "latin1">>

IndexOf(seq, x) == CHOOSE k \in 1..Len(seq) : seq[k] = x

\* pd.read_csv(file_path, encoding=encoding, sep=separator): the frame
\* that the file gives for this pair, or the exception; a file lists its
\* frames by encoding and then by separator, and the pairs it does not
\* list raise
read_csv(file, encoding, separator) ==
    LET k == (IndexOf(ENCODINGS, encoding) - 1) * Len(SEPARATORS)
             + IndexOf(SEPARATORS, separator)
    IN  IF k <= Len(file.parses) THEN file.parses[k] ELSE ParseError

\* open(file_path, "r", encoding=encoding, errors="replace").read(): the
\* text of the file under this encoding; a file that lists no decodings
\* reads alike under all of them
decode(file, encoding) ==
    IF IndexOf(ENCODINGS, encoding) <= Len(file.decodings)
    THEN file.decodings[IndexOf(ENCODINGS, encoding)]
    ELSE file.content

\* a character class that leaves out white space only
REGEX_STOP_spaces == {" ", "\t", CR, LF}

\* the characters that end a match of [^\s,"';]+
REGEX_STOP == {" ", "\t", CR, LF, COMMA, DQUOTE, "'", ";"}

\* https?:// matches at position i: the position after it, else 0
SchemeEnd(content, i) ==
    LET after == IF i + 4 <= Len(content) /\ content[i + 4] = "s"
                 THEN i + 5 ELSE i + 4
    IN  IF /\ i + 3 <= Len(content)
           /\ SubSeq(content, i, i + 3) = HTTP
           /\ after + 2 <= Len(content)
           /\ SubSeq(content, after, after + 2) = <<":", "/", "/">>
        THEN after + 3
        ELSE 0

\* the last position of the longest run of non-stop characters from i on
RECURSIVE RunEnd(_, _)
RunEnd(content, i) ==
    IF i > Len(content) \/ content[i] \in REGEX_STOP THEN i - 1
    ELSE RunEnd(content, i + 1)

\* re.findall(r"https?://[^\s,\"';]+", content) from position i on
RECURSIVE findall(_, _)
findall(content, i) ==
    IF i > Len(content) THEN <<>>
    ELSE LET s == SchemeEnd(content, i)
         IN  IF s # 0 /\ RunEnd(content, s) >= s
             THEN <<SubSeq(content, i, RunEnd(content, s))>>
                  \o findall(content, RunEnd(content, s) + 1)
             ELSE findall(content, i + 1)

\* for encoding in encodings: the matches of the first encoding, from the
\* k-th on, under which the text has any
RECURSIVE RegexEncodings(_, _, _)
RegexEncodings(file, encodings, k) ==
    IF k > Len(encodings) THEN <<>>
    ELSE IF findall(decode(file, encodings[k]), 1) # <<>>
    THEN findall(decode(file, encodings[k]), 1)
    ELSE RegexEncodings(file, encodings, k + 1)

\* URLExtractor._extract_urls_regex: the matches in the text of the file,
\* an empty list when there is none
extract_urls_regex(file) == RegexEncodings(file, ENCODINGS, 1)

\* GetTiktokVideo._extract_urls_regex
legacy_extract_urls_regex(file) ==
    RegexEncodings(file, LEGACY_REGEX_ENCODINGS, 1)

\* one attempt of the loops: the URLs of _try_read_csv, none if it raises
Attempt(file, e, s) ==
    LET r == try_read_csv(read_csv(file, ENCODINGS[e], SEPARATORS[s]))
    IN  IF r.raised THEN <<>> ELSE r.urls

\* an inner loop that goes on after a separator has yielded URLs
RECURSIVE TrySeparators_last(_, _, _)
TrySeparators_last(file, e, s) ==
    IF s > Len(SEPARATORS) THEN <<>>
    ELSE IF TrySeparators_last(file, e, s + 1) # <<>>
    THEN TrySeparators_last(file, e, s + 1)
    ELSE Attempt(file, e, s)

\* for separator in self.SEPARATORS, from the s-th on: the URLs of the
\* first attempt that yields any; an attempt that raises is passed over
RECURSIVE TrySeparators(_, _, _)
TrySeparators(file, e, s) ==
    IF s > Len(SEPARATORS) THEN <<>>
    ELSE IF Attempt(file, e, s) # <<>> THEN Attempt(file, e, s)
    ELSE TrySeparators(file, e, s + 1)

\* for encoding in self.ENCODINGS, from the e-th on
RECURSIVE TryEncodings(_, _)
TryEncodings(file, e) ==
    IF e > Len(ENCODINGS) THEN <<>>
    ELSE IF TrySeparators(file, e, 1) # <<>> THEN TrySeparators(file, e, 1)
    ELSE TryEncodings(file, e + 1)

\* URLExtractor._extract_from_text_file: the structured parse, else the
\* regex fallback
extract_from_text_file(file) ==
    IF TryEncodings(file, 1) # <<>> THEN TryEncodings(file, 1)
    ELSE extract_urls_regex(file)

\* the first of the members with this extension that yields URLs
RECURSIVE FirstMember(_, _, _)
FirstMember(members, ext, k) ==
    IF k > Len(members) THEN <<>>
    ELSE IF members[k].ext = ext
            /\ extract_from_text_file(members[k]) # <<>>
    THEN extract_from_text_file(members[k])
    ELSE FirstMember(members, ext, k + 1)

\* an archive path that takes the entries as they come, CSV or TXT
RECURSIVE FirstOfEither(_, _)
FirstOfEither(members, k) ==
    IF k > Len(members) THEN <<>>
    ELSE IF members[k].ext \in {"csv", "txt"}
            /\ extract_from_text_file(members[k]) # <<>>
    THEN extract_from_text_file(members[k])
    ELSE FirstOfEither(members, k + 1)

extract_from_zip_as_they_come(file) == FirstOfEither(file.members, 1)

\* URLExtractor._extract_from_zip, up to its raise: the CSV members first,
\* then the TXT members
extract_from_zip(file) ==
    IF FirstMember(file.members, "csv", 1) # <<>>
    THEN FirstMember(file.members, "csv", 1)
    ELSE FirstMember(file.members, "txt", 1)

\* the first bytes of a file: those of the local file header of its first
\* entry for an archive, the first characters of its text otherwise
PK == <<"P", "K">>
ZIP_MAGIC == PK \o <<"\\x03", "\\x04">>
header(file) == IF file.kind = "zip" THEN ZIP_MAGIC ELSE head(file.content, 4)

\* a detection that asks for the whole magic number of a local file header
check_file_type_magic(file) ==
    IF header(file) = ZIP_MAGIC THEN "zip"
    ELSE IF file.utf8 THEN "text"
    ELSE "unknown"

\* URLExtractor._check_file_type: ZIP if the first two bytes are PK, TEXT
\* if the first line can be read as UTF-8, UNKNOWN otherwise
check_file_type(file) ==
    IF head(header(file), 2) = PK THEN "zip"
    ELSE IF file.utf8 THEN "text"
    ELSE "unknown"

\* the input of a run that a file on disk is: the path extract_from_file
\* takes for it and what its content yields on that path; zipfile.ZipFile
\* raises on a file that is no archive
AsInput(file) ==
    [exists |-> file.exists,
     kind |-> IF file.exists /\ check_file_type(file) = "zip" THEN "zip"
              ELSE "text",
     urls |-> IF ~file.exists THEN <<>>
              ELSE IF check_file_type(file) = "zip"
              THEN (IF file.kind = "zip" THEN extract_from_zip(file)
                    ELSE <<>>)
              ELSE extract_from_text_file(file)]

\* URLExtractor.extract_from_file on a file on disk
extract(file) == extract_from_file(AsInput(file))

\* GetTiktokVideo._find_url_column: as above, but the first column of a
\* frame that is not empty is taken unseen
legacy_find_url_column(df) ==
    IF ColumnNamed(df, URL_KEY) # 0 THEN ColumnNamed(df, URL_KEY)
    ELSE IF KeywordColumn(df) # 0 THEN KeywordColumn(df)
    ELSE IF NotEmpty(df) THEN 1
    ELSE 0

\* url.startswith(("http://", "https://"))
startswith_scheme(v) ==
    \/ startswith(v, HTTP \o <<":", "/", "/">>)
    \/ startswith(v, HTTP \o <<"s", ":", "/", "/">>)

\* the valid URLs of one attempt of GetTiktokVideo._get_url_list
legacy_valid_urls(df) ==
    IF df.error \/ legacy_find_url_column(df) = 0 THEN <<>>
    ELSE SelectSeq(dropna(df.columns[legacy_find_url_column(df)].cells),
                   LAMBDA v : isinstance_str(v) /\ startswith_scheme(v))

\* for encoding in encodings, from the e-th on, with the default separator
RECURSIVE LegacyFirstParse(_, _)
LegacyFirstParse(file, e) ==
    IF e > Len(ENCODINGS) THEN <<>>
    ELSE IF legacy_valid_urls(read_csv(file, ENCODINGS[e], COMMA)) # <<>>
    THEN legacy_valid_urls(read_csv(file, ENCODINGS[e], COMMA))
    ELSE LegacyFirstParse(file, e + 1)

\* GetTiktokVideo._get_url_list: the first encoding that yields valid URLs,
\* else the regex fallback
get_url_list(file) ==
    IF LegacyFirstParse(file, 1) # <<>>
    THEN LegacyFirstParse(file, 1)
    ELSE legacy_extract_urls_regex(file)

\* the files the extractors are checked on
U_FULL == HTTP \o <<":", "/", "/", "a">>
U_SECURE == HTTP \o <<"s", ":", "/", "/", "b">>
C_FTP == <<"f", "t", "p">>
NAMES == {URL_KEY, <<"L", "i", "n", "k">>, <<"x">>}
CELLS == {U_PLAIN, U_FULL, C_FTP, NaN, IntCell}
CHUNKS == {U_FULL, U_SECURE, HTTP, <<" ">>, <<COMMA>>, <<"x">>}

Columns(n) == {[name |-> nm, cells |-> c] : nm \in NAMES, c \in [1..n -> CELLS]}

\* frames of one column with up to MaxCells rows, and of two columns with
\* fewer rows
\* a column whose only URL is its sixth value, and one whose only URL is
\* its sixth value after a missing one
F_SIXTH == [error |-> FALSE,
            columns |-> <<[name |-> <<"x">>,
                           cells |-> <<C_FTP, C_FTP, C_FTP, C_FTP, C_FTP,
                                       U_FULL>>]>>]
F_AFTER_NAN == [error |-> FALSE,
                columns |-> <<[name |-> <<"x">>,
                               cells |-> <<NaN, C_FTP, C_FTP, C_FTP, C_FTP,
                                           U_FULL>>]>>]
FRAMES ==
    {ParseError, F_SIXTH, F_AFTER_NAN}
    \cup UNION {{[error |-> FALSE, columns |-> <<c>>] : c \in Columns(n)} :
                  n \in 0..MaxCells}
    \cup UNION {{[error |-> FALSE, columns |-> <<c, d>>] :
                     c \in Columns(n), d \in Columns(n)} :
                  n \in 0..(MaxCells - 1)}

\* frames of a file whose attempts do not all parse alike
F_URLS == [error |-> FALSE,
           columns |-> <<[name |-> URL_KEY, cells |-> <<U_FULL>>]>>]
F_NONE == [error |-> FALSE,
           columns |-> <<[name |-> <<"x">>, cells |-> <<C_FTP>>]>>]
PARSES ==
    {<<f>> : f \in FRAMES}
    \cup {<<f, g>> : f \in {ParseError, F_NONE},
                      g \in {ParseError, F_NONE, F_URLS}}

CONTENTS == {Concat(c) : c \in SeqsUpTo(CHUNKS, MaxChunks)}

NoSrc == [exists |-> FALSE, kind |-> "none", parses |-> <<>>,
          content |-> <<>>, decodings |-> <<>>, utf8 |-> TRUE,
          members |-> <<>>]
MissingFile == [NoSrc EXCEPT !.kind = "text"]
TextFile(p, c) ==
    [exists |-> TRUE, kind |-> "text", parses |-> p, content |-> c,
     decodings |-> <<>>, utf8 |-> TRUE, members |-> <<>>]
MEMBERS ==
    {[ext |-> e, parses |-> t.parses, content |-> t.content,
      decodings |-> <<>>] :
        e \in {"csv", "txt", "dat"},
        t \in {TextFile(<<F_URLS>>, <<>>), TextFile(<<F_NONE>>, U_SECURE),
               TextFile(<<ParseError>>, <<"x">>)}}
ZipFile(ms) ==
    [exists |-> TRUE, kind |-> "zip", parses |-> <<>>, content |-> <<>>,
     decodings |-> <<>>, utf8 |-> TRUE, members |-> ms]

\* files whose frames differ from pair to pair: one pair has the url
\* column with one URL, another pair has it with another URL, has no URL
\* or raises, and the other pairs have no URL or raise; the text holds a
\* third URL
F_OTHER == [error |-> FALSE,
            columns |-> <<[name |-> URL_KEY, cells |-> <<U_PLAIN>>]>>]
PairCount == Len(ENCODINGS) * Len(SEPARATORS)
Table(p, q, fq, rest) ==
    [k \in 1..PairCount |->
       IF k = p THEN F_URLS ELSE IF k = q THEN fq ELSE rest]
TABLE_FILES ==
    {TextFile(Table(p, q, fq, rest), U_SECURE) :
       p \in 1..PairCount, q \in 1..PairCount,
       fq \in {F_OTHER, F_NONE}, rest \in {ParseError, F_NONE}}

\* files without any URL column, whose text differs from encoding to
\* encoding: no URL, one URL, or another one cut by a comma
T_NONE == <<"x">>
T_CUT == U_FULL \o <<COMMA, "c">>
TEXTS == {T_NONE, U_SECURE, T_CUT}
DECODED_FILES ==
    {[TextFile(p, d[1]) EXCEPT !.decodings = d] :
       p \in {<<>>, [k \in 1..PairCount |-> F_NONE]},
       d \in [1..Len(ENCODINGS) -> TEXTS]}

\* text files that begin with the letters PK, and files that are not
\* valid UTF-8
T_PK == PK \o <<COMMA, "u", "r", "l", LF, "1", COMMA>> \o U_FULL \o <<LF>>
F_PK == [error |-> FALSE,
         columns |-> <<[name |-> PK, cells |-> <<IntCell>>],
                       [name |-> URL_KEY, cells |-> <<U_FULL>>]>>]
PK_FILES == {TextFile(<<f>>, T_PK) : f \in {F_PK, ParseError}}
NON_UTF8_FILES ==
    {[TextFile(p, c) EXCEPT !.utf8 = FALSE] :
       p \in {<<ParseError, F_URLS>>, <<ParseError>>},
       c \in {U_SECURE, PK \o U_SECURE, T_NONE}}

\* files without a frame whose text holds several URLs, between spaces,
\* commas, semicolons and quotes, or one after the other
T_SEVERAL ==
    U_SECURE \o <<" ">> \o U_FULL \o <<COMMA, "c", ";">> \o U_FULL
      \o <<"'", "x", LF, DQUOTE>> \o U_SECURE \o <<DQUOTE>>
T_FOLLOWING == U_FULL \o U_SECURE \o <<LF>> \o HTTP \o <<":", "/", "/", ";">>
REGEX_FILES == {TextFile(<<>>, t) : t \in {T_SEVERAL, T_FOLLOWING}}

FILES ==
    {MissingFile}
    \cup {TextFile(p, c) : p \in PARSES, c \in CONTENTS}
    \cup PK_FILES
    \cup REGEX_FILES
    \cup NON_UTF8_FILES
    \cup TABLE_FILES
    \cup DECODED_FILES
    \cup {ZipFile(ms) : ms \in SeqsUpTo(MEMBERS, MaxMembers)}

\* the column that _find_url_column takes in the frame of the first
\* attempt on a text file, 0 if it takes none or there is no frame
FirstFrame(file) == read_csv(file, ENCODINGS[1], SEPARATORS[1])
HasFirstFrame(file) ==
    file.exists /\ file.kind = "text" /\ ~FirstFrame(file).error

NotExtracted ==
    [done |-> FALSE, raised |-> FALSE, urls |-> <<>>, column |-> 0,
     file_type |-> "none"]

VARIABLES
    \* DownloadConfig and the bounds of the runs
    max_videos_per_folder, max_retries, retry_delay, limits,
    \* the output tree: the output directory, the shard directories, and
    \* the content of each shard's id2url.csv
    out_dir, dirs, files,
    \* download_all
    pc, url_list, index, attempt, downloaded_count, failed_count, summary,
    subfolder_index, tracker,
    \* history: runs started, collaborator calls of the run, what happened
    \* to the URL at the current position, the shard of each position, the
    \* per-URL state, the previous run, downloads whose record failed, the
    \* URLs appended to each tracking file
    run_no, n_collect, events, shard_log, status, prev, unrecorded, rows,
    \* the sleeps of the run so far
    n_sleep,
    \* the input of the run when it is missing or holds no URL, the last
    \* answer of the collaborator, whether every fetch and every record of
    \* the run has succeeded so far, and what video1/id2url.csv held before
    \* the first tracker
    input, outcome, run_clean, seed,
    \* an input file on disk, what extract_from_file made of it, and what
    \* the legacy _get_url_list made of it
    src_file, extracted, legacy_urls,
    \* the clock in seconds, last_called[0] of the rate_limit wrapper of
    \* collect, where the process is with respect to collect, the end of
    \* the last run of the body of collect, and the time from that end to
    \* the start of the body that runs now
    now, last_called, at, body_end, gap,
    \* label_video_with_gemini under retry_on_gemini_failure: the arguments
    \* of the decorator, the video file, where the call is, the attempt of
    \* the loop, the number of times the wrapped function was invoked, the
    \* messages of the exceptions it raised, the sleeps, and what the
    \* caller gets
    gemini_max_retries, gemini_delay, label_path, video_exists, call_pc,
    retry_attempt, invocations, raised_msgs, sleeps, observed,
    \* the TikTokVideoCollector instances: the rate_limit_delay each was
    \* constructed with, the instance whose collect is being called, the
    \* time each instance's collect last returned, and how long the wrapper
    \* of collect slept in the call that runs now
    rate_limit_delay, caller, own_end, slept,
    \* the text a call of LabelResult.parse_from_response is given, and
    \* the LabelResult it returns
    response, label_result,
    \* label_entire_videos: whether the input folder exists, what
    \* os.listdir gives for it, whether setup_gemini_client gave a client,
    \* where the call is, the place of the loop in the listing, the results
    \* dictionary, the video-specific folders made and the copies written
    \* under the output folder, what processing_summary.json holds, and
    \* what the file system and the labelling answered for each file
    input_exists, listing, gemini_client, lab_pc, next_file, results,
    subfolders, copies, summary_json, answers,
    \* a URL list, an output tree and the answers of the collaborator and
    \* of the file system, and what download_all and the legacy
    \* download_video each do with them
    legacy_case, replayed

config == <<max_videos_per_folder, max_retries, retry_delay, limits>>
tree == <<out_dir, dirs, files>>
run == <<pc, url_list, index, attempt, downloaded_count, failed_count,
         summary, subfolder_index, tracker>>
history == <<run_no, n_collect, n_sleep, events, shard_log, status, prev,
             unrecorded, rows, input, outcome, run_clean, seed>>
timing == <<now, last_called, at, body_end, gap>>
gemini == <<gemini_max_retries, gemini_delay, label_path, video_exists,
            call_pc, retry_attempt, invocations, raised_msgs, sleeps,
            observed>>
collectors == <<rate_limit_delay, caller, own_end, slept>>
parsing == <<response, label_result>>
labeller == <<input_exists, listing, gemini_client, lab_pc, next_file,
              results, subfolders, copies, summary_json, answers>>
compare == <<legacy_case, replayed>>
more == <<collectors, parsing, labeller, compare>>
aux == <<src_file, extracted, legacy_urls, timing, gemini, more>>
vars == <<config, tree, run, history, aux>>

\* no video file in play, and a call that has not ended
NoVideo == <<>>
NoOutcome == [kind |-> "none", msg |-> <<>>]

\* no body of collect has run yet
NoBody == [t |-> 0, how |-> "none"]
NoGap == 0 - 1

\* the instances of TikTokVideoCollector, and no instance
COLLECTORS == {1, 2}
NoCollector == 0
\* what the specifications that do not look at a part of the program
\* start that part with
\* reading a tracking file never fails
NeverFails == 0 - 1
\* no comparison of the two downloaders
NoCase ==
    [urls |-> <<>>, seed |-> NoSeed, bad |-> NeverFails, script |-> <<>>,
     failing_writes |-> {}]
NoObserved == [trace |-> <<>>, shards |-> <<>>, raised |-> FALSE]
NotReplayed == [done |-> FALSE, main |-> NoObserved, legacy |-> NoObserved]
NoExtra ==
    [collector_delays |-> {RATE_LIMIT_DELAY}, responses |-> {<<>>},
     input_exists |-> {FALSE}, listings |-> {<<>>}, cases |-> {NoCase}]
\* parse_from_response has not returned
NoLabelResult ==
    [dimension_1 |-> <<>>, dimension_2 |-> <<>>, dimension_3 |-> <<>>,
     dimension_4 |-> <<>>, raw_response |-> <<>>, final_score |-> <<>>]

NoInput == [exists |-> TRUE, kind |-> "none", urls |-> <<>>]
NoTracker == [csv_path |-> 0, existing_urls |-> {}]
NoPrev == [urls |-> <<>>, clean |-> FALSE, files |-> [s \in SHARDS |-> NoFile]]

\* the state after construction, before the first run: the output tree is
\* empty, or holds a tracking file of the first shard
InitWith(lim) ==
    /\ limits = [lim EXCEPT !.extra = NoExtra]
    /\ seed \in Seeds(lim.headers, lim.seed_rows)
    /\ src_file \in (IF lim.on_disk THEN FILES ELSE {NoSrc})
    /\ extracted = NotExtracted
    /\ legacy_urls = NotExtracted
    /\ max_videos_per_folder \in lim.per_folder
    /\ max_retries \in lim.retries
    /\ retry_delay \in lim.retry_delays
    /\ now = StartTime
    /\ last_called = 0
    /\ at = "caller"
    /\ body_end = NoBody
    /\ gap = NoGap
    /\ gemini_max_retries \in lim.gemini_retries
    /\ gemini_delay \in lim.gemini_delays
    /\ label_path \in lim.videos
    /\ video_exists \in (IF lim.videos = {NoVideo} THEN {FALSE} ELSE BOOLEAN)
    /\ call_pc = "idle"
    /\ retry_attempt = 0
    /\ invocations = 0
    /\ raised_msgs = <<>>
    /\ sleeps = <<>>
    /\ observed = NoOutcome
    /\ rate_limit_delay \in [COLLECTORS -> lim.extra.collector_delays]
    /\ caller = NoCollector
    /\ own_end = [c \in COLLECTORS |-> NoGap]
    /\ slept = 0
    /\ response \in lim.extra.responses
    /\ label_result = NoLabelResult
    /\ input_exists \in lim.extra.input_exists
    /\ listing \in (IF input_exists THEN lim.extra.listings ELSE {<<>>})
    /\ gemini_client = FALSE
    /\ lab_pc = "idle"
    /\ next_file = 0
    /\ results = <<>>
    /\ subfolders = {}
    /\ copies = {}
    /\ summary_json = <<>>
    /\ answers = <<>>
    /\ legacy_case \in lim.extra.cases
    /\ replayed = NotReplayed
    /\ out_dir = (seed # NoSeed)
    /\ dirs = (IF seed = NoSeed THEN {} ELSE {1})
    /\ files = [s \in SHARDS |-> IF s = 1 THEN SeedFile(seed) ELSE NoFile]
    /\ pc = "idle"
    /\ url_list = <<>>
    /\ index = 0
    /\ attempt = 0
    /\ downloaded_count = 0
    /\ failed_count = 0
    /\ summary = None
    /\ subfolder_index = 0
    /\ tracker = NoTracker
    /\ run_no = 0
    /\ n_collect = 0
    /\ n_sleep = 0
    /\ events = <<>>
    /\ shard_log = <<>>
    /\ status = <<>>
    /\ prev = NoPrev
    /\ unrecorded = {}
    /\ rows = [s \in SHARDS |-> <<>>]
    /\ input = NoInput
    /\ outcome = None
    /\ run_clean = FALSE

Init ==
    InitWith([runs |-> MaxRuns, len |-> MaxLen, urls |-> URLS,
              per_folder |-> MAX_VIDEOS_CHOICES,
              retries |-> MAX_RETRIES_CHOICES, headers |-> {},
              on_disk |-> FALSE, retry_delays |-> {RETRY_DELAY},
              gemini_retries |-> {MAX_RETRIES},
              gemini_delays |-> {GEMINI_DELAY}, videos |-> {NoVideo},
              seed_rows |-> 0, records |-> 0,
              extra |-> NoExtra])

Running == pc \in {"loop", "collect", "sleep"}

\* what the run that just ended leaves for the next one to be compared with
Snapshot ==
    IF pc = "returned" /\ summary.success
    THEN [urls |-> url_list,
          clean |-> run_clean,
          files |-> files]
    ELSE NoPrev

\* download_all up to the loop: extraction, the early returns, and the
\* creation of the output directory
StartRun ==
    /\ pc \in {"idle", "returned", "raised", "killed"}
    /\ run_no < limits.runs
    /\ \E in \in Inputs(limits.urls, limits.len) :
         LET ex == extract_from_file(in)
         IN  /\ run_no' = run_no + 1
             /\ input' = IF ~in.exists \/ in.urls = <<>> THEN in ELSE NoInput
             /\ outcome' = None
             /\ run_clean' = TRUE
             /\ prev' = Snapshot
             /\ n_collect' = 0
             /\ n_sleep' = 0
             /\ events' = <<>>
             /\ shard_log' = <<>>
             /\ downloaded_count' = 0
             /\ failed_count' = 0
             /\ index' = 0
             /\ attempt' = 0
             /\ subfolder_index' = 0
             /\ tracker' = NoTracker
             /\ IF extraction_failed(ex)
                THEN /\ pc' = "returned"
                     /\ summary' = [success |-> FALSE, downloaded |-> 0,
                                    failed |-> 0, total |-> None]
                     /\ url_list' = <<>>
                     /\ status' = <<>>
                     /\ out_dir' = out_dir
                ELSE /\ pc' = "loop"
                     /\ summary' = None
                     /\ url_list' = ex.urls
                     /\ status' = [k \in 1..Len(ex.urls) |-> "PENDING"]
                     /\ out_dir' = TRUE
             /\ UNCHANGED <<aux, config, dirs, files, unrecorded, rows, seed>>

\* an exhausted URL that ends the run with an exception
ReturnFailure_raises ==
    /\ pc' = "raised"
    /\ UNCHANGED <<index, failed_count, status>>

\* a failure after which download_all takes up the same URL again
ReturnFailure_stays ==
    /\ pc' = "loop"
    /\ index' = index
    /\ failed_count' = failed_count + 1
    /\ status' = [status EXCEPT ![index + 1] = "FAILED"]

\* _download_single returns the failure and download_all counts it
ReturnFailure ==
    /\ pc' = "loop"
    /\ index' = index + 1
    /\ failed_count' = failed_count + 1
    /\ status' = [status EXCEPT ![index + 1] = "FAILED"]

\* the end of one pass of the retry loop: the next attempt, or the failure
AfterAttempt ==
    IF more_attempts(attempt, max_retries)
    THEN /\ pc' = "collect"
         /\ attempt' = attempt + 1
         /\ UNCHANGED <<index, failed_count, status>>
    ELSE /\ attempt' = attempt
         /\ ReturnFailure

\* one iteration of the loop up to the call of _download_single: the shard
\* directory, a new tracker on its id2url.csv, and the skip of a tracked URL
LoopIter ==
    /\ pc = "loop"
    /\ index < Len(url_list)
    /\ LET url == url_list[index + 1]
           si == subfolder_index_of(index, max_videos_per_folder)
           tr == DownloadTracker(si, files[si])
       IN  /\ subfolder_index' = si
           /\ dirs' = dirs \cup {si}
           /\ files' = [files EXCEPT ![si] = tr.file]
           /\ tracker' = [csv_path |-> tr.csv_path,
                          existing_urls |-> tr.existing_urls]
           /\ shard_log' = Append(shard_log, si)
           /\ events' = <<[op |-> "check", shard |-> tr.csv_path]>>
           /\ attempt' = 0
           /\ IF is_processed(tr.existing_urls, url)
              THEN /\ pc' = "loop"
                   /\ index' = index + 1
                   /\ status' = [status EXCEPT ![index + 1] = "SKIPPED"]
                   /\ failed_count' = failed_count
                   /\ run_clean' = run_clean
              ELSE IF max_retries <= 0
              THEN /\ ReturnFailure
                   /\ run_clean' = FALSE
              ELSE /\ pc' = "collect"
                   /\ index' = index
                   /\ status' = [status EXCEPT ![index + 1] = "FETCHING"]
                   /\ failed_count' = failed_count
                   /\ run_clean' = run_clean
    /\ UNCHANGED <<aux, config, out_dir, url_list, downloaded_count, summary,
                   run_no, n_collect, n_sleep, prev, unrecorded, rows,
                   input, outcome, seed>>

Collected == [op |-> "collect", dest |-> subfolder_index]

\* collect returns a video: _download_single returns success, download_all
\* records the download and counts it
CollectOk ==
    /\ pc = "collect"
    /\ \E write_ok \in BOOLEAN :
         LET url == url_list[index + 1]
             video_path == VideoPath(subfolder_index, url)
             rec == record_download(files[tracker.csv_path],
                                    tracker.existing_urls, url, video_path,
                                    write_ok)
             key == <<tracker.csv_path, url>>
         IN  /\ files' = [files EXCEPT ![tracker.csv_path] = rec.file]
             /\ tracker' = [tracker EXCEPT
                              !.existing_urls = rec.existing_urls]
             /\ events' = events \o <<Collected,
                             [op |-> "record", shard |-> tracker.csv_path,
                              ok |-> write_ok]>>
             /\ unrecorded' = IF write_ok THEN unrecorded \ {key}
                              ELSE unrecorded \cup {key}
             /\ rows' = IF write_ok
                        THEN [rows EXCEPT ![tracker.csv_path] =
                                Append(rows[tracker.csv_path], url)]
                        ELSE rows
             /\ IF rec.raised
                THEN /\ pc' = "raised"
                     /\ UNCHANGED <<index, downloaded_count, status>>
                ELSE /\ pc' = "loop"
                     /\ index' = index + 1
                     /\ downloaded_count' = downloaded_count + 1
                     /\ status' = [status EXCEPT ![index + 1] = "SUCCESS"]
             /\ run_clean' = (run_clean /\ write_ok)
    /\ n_collect' = n_collect + 1
    /\ n_sleep' = n_sleep
    /\ outcome' = "video"
    /\ UNCHANGED <<aux, config, out_dir, dirs, url_list, attempt, failed_count,
                   summary, subfolder_index, run_no, shard_log, prev, input,
                   seed>>

\* collect raises a TikTokDownloadError: the attempt is logged, and
\* time.sleep(retry_delay) is entered if attempts remain
CollectError ==
    /\ pc = "collect"
    /\ n_collect' = n_collect + 1
    /\ outcome' = "download_error"
    /\ IF retry_after(attempt, max_retries)
       THEN /\ pc' = "sleep"
            /\ n_sleep' = n_sleep + 1
            /\ events' = events \o <<Collected,
                           [op |-> "sleep", secs |-> retry_delay]>>
            /\ run_clean' = run_clean
            /\ UNCHANGED <<index, attempt, failed_count, status>>
       ELSE /\ events' = Append(events, Collected)
            /\ n_sleep' = n_sleep
            /\ run_clean' = (run_clean /\ more_attempts(attempt, max_retries))
            /\ AfterAttempt
    /\ UNCHANGED <<aux, config, tree, url_list, downloaded_count, summary,
                   subfolder_index, tracker, run_no, shard_log, prev,
                   unrecorded, rows, input, seed>>

\* time.sleep returns: the retry loop goes on
Wake ==
    /\ pc = "sleep"
    /\ AfterAttempt
    /\ run_clean' = (run_clean /\ more_attempts(attempt, max_retries))
    /\ UNCHANGED <<aux, config, tree, url_list, downloaded_count, summary,
                   subfolder_index, tracker, run_no, n_collect, n_sleep,
                   events, shard_log, prev, unrecorded, rows, input, outcome,
                   seed>>

\* the frame of download_all is gone: an exception left it, or the process
\* ended; only the output tree stays
Abandon(how) ==
    /\ pc' = how
    /\ url_list' = <<>>
    /\ index' = 0
    /\ attempt' = 0
    /\ downloaded_count' = 0
    /\ failed_count' = 0
    /\ summary' = None
    /\ subfolder_index' = 0
    /\ tracker' = NoTracker
    /\ events' = <<>>
    /\ shard_log' = <<>>
    /\ status' = <<>>
    /\ input' = NoInput
    /\ run_clean' = FALSE

\* an except clause that catches every exception of collect
CollectOther_retried ==
    /\ pc = "collect"
    /\ n_collect' = n_collect + 1
    /\ outcome' = "other_error"
    /\ IF retry_after(attempt, max_retries)
       THEN /\ pc' = "sleep"
            /\ n_sleep' = n_sleep + 1
            /\ events' = events \o <<Collected,
                           [op |-> "sleep", secs |-> retry_delay]>>
            /\ run_clean' = run_clean
            /\ UNCHANGED <<index, attempt, failed_count, status>>
       ELSE /\ events' = Append(events, Collected)
            /\ n_sleep' = n_sleep
            /\ run_clean' = (run_clean /\ more_attempts(attempt, max_retries))
            /\ AfterAttempt
    /\ UNCHANGED <<aux, config, tree, url_list, downloaded_count, summary,
                   subfolder_index, tracker, run_no, shard_log, prev,
                   unrecorded, rows, input, seed>>

\* collect raises something that is no TikTokDownloadError (mkdir of the
\* download path fails before its try block): nothing catches it, and it
\* leaves _download_single and download_all after that call
CollectOther ==
    /\ pc = "collect"
    /\ Abandon("raised")
    /\ n_collect' = n_collect + 1
    /\ outcome' = "other_error"
    /\ UNCHANGED <<aux, config, tree, run_no, n_sleep, prev, unrecorded, rows,
                   seed>>

\* a summary whose total counts only the URLs that were fetched
Finish_fetched_only ==
    /\ pc = "loop"
    /\ index = Len(url_list)
    /\ pc' = "returned"
    /\ summary' = [success |-> TRUE, downloaded |-> downloaded_count,
                   failed |-> failed_count,
                   total |-> downloaded_count + failed_count]
    /\ UNCHANGED <<aux, config, tree, url_list, index, attempt,
                   downloaded_count, failed_count, subfolder_index, tracker,
                   history>>

\* the loop is over: the summary is returned
Finish ==
    /\ pc = "loop"
    /\ index = Len(url_list)
    /\ pc' = "returned"
    /\ summary' = [success |-> TRUE, downloaded |-> downloaded_count,
                   failed |-> failed_count, total |-> Len(url_list)]
    /\ UNCHANGED <<aux, config, tree, url_list, index, attempt,
                   downloaded_count, failed_count, subfolder_index, tracker,
                   history>>

\* the process is terminated in the middle of a run
Kill ==
    /\ Running
    /\ Abandon("killed")
    /\ n_collect' = 0
    /\ n_sleep' = 0
    /\ outcome' = None
    /\ UNCHANGED <<aux, config, tree, run_no, prev, unrecorded, rows, seed>>

Next ==
    \/ StartRun
    \/ LoopIter
    \/ CollectOk
    \/ CollectError
    \/ Wake
    \/ CollectOther
    \/ Finish
    \/ Kill

Spec == Init /\ [][Next]_vars

\* runs in which the collaborator answers with a video or a download
\* error, and the process is left alone; a run that has started goes on,
\* as every call of the collaborator and every sleep returns
RunStep ==
    \/ LoopIter
    \/ CollectOk
    \/ CollectError
    \/ Wake
    \/ Finish

NextIsolated ==
    \/ StartRun
    \/ RunStep

InitIsolated ==
    InitWith([runs |-> 1, len |-> MaxLen, urls |-> URLS,
              per_folder |-> MAX_VIDEOS_CHOICES,
              retries |-> MAX_RETRIES_CHOICES, headers |-> {},
              on_disk |-> FALSE, retry_delays |-> {RETRY_DELAY},
              gemini_retries |-> {MAX_RETRIES},
              gemini_delays |-> {GEMINI_DELAY}, videos |-> {NoVideo},
              seed_rows |-> 0, records |-> 0,
              extra |-> NoExtra])

SpecIsolated == InitIsolated /\ [][NextIsolated]_vars /\ WF_vars(RunStep)

\* runs whose --max-retries is negative, zero or two, on an output tree
\* whose first shard may hold a tracking file with a row
DEGENERATE_RETRIES == {0 - 1, 0, 2}
InitDegenerate ==
    InitWith([runs |-> MaxRuns, len |-> MaxLen, urls |-> URLS,
              per_folder |-> MAX_VIDEOS_CHOICES,
              retries |-> DEGENERATE_RETRIES, headers |-> {"std"},
              on_disk |-> FALSE, retry_delays |-> {RETRY_DELAY},
              gemini_retries |-> {MAX_RETRIES},
              gemini_delays |-> {GEMINI_DELAY}, videos |-> {NoVideo},
              seed_rows |-> 1, records |-> 0,
              extra |-> NoExtra])

SpecDegenerate == InitDegenerate /\ [][Next]_vars

\* one such run over a longer list
InitLong ==
    InitWith([runs |-> 1, len |-> LongLen, urls |-> LONG_URLS,
              per_folder |-> {2}, retries |-> {2}, headers |-> {},
              on_disk |-> FALSE, retry_delays |-> {RETRY_DELAY},
              gemini_retries |-> {MAX_RETRIES},
              gemini_delays |-> {GEMINI_DELAY}, videos |-> {NoVideo},
              seed_rows |-> 0, records |-> 0,
              extra |-> NoExtra])

SpecLong == InitLong /\ [][NextIsolated]_vars

\* a DownloadTracker used on its own, on video1/id2url.csv
\* DownloadTracker(csv_path): a missing file is created, and its parent
\* directories with it
TkNew ==
    /\ pc \in {"idle", "fresh", "used"}
    /\ LET tr == DownloadTracker(1, files[1])
       IN  /\ files' = [files EXCEPT ![1] = tr.file]
           /\ tracker' = [csv_path |-> tr.csv_path,
                          existing_urls |-> tr.existing_urls]
    /\ dirs' = (IF files[1] = NoFile THEN dirs \cup {1} ELSE dirs)
    /\ out_dir' = (out_dir \/ files[1] = NoFile)
    /\ pc' = "fresh"
    /\ UNCHANGED <<aux, config, url_list, index, attempt,
                   downloaded_count, failed_count, summary, subfolder_index,
                   history>>

\* tracker.record_download(url, video_path)
TkRecord ==
    /\ pc \in {"fresh", "used"}
    /\ Len(events) < limits.records
    /\ \E url \in limits.urls, write_ok \in BOOLEAN :
         LET rec == record_download(files[tracker.csv_path],
                                    tracker.existing_urls, url,
                                    VideoPath(tracker.csv_path, url), write_ok)
             key == <<tracker.csv_path, url>>
         IN  /\ files' = [files EXCEPT ![tracker.csv_path] = rec.file]
             /\ tracker' = [tracker EXCEPT
                              !.existing_urls = rec.existing_urls]
             /\ events' = Append(events,
                             [op |-> "record", shard |-> tracker.csv_path,
                              ok |-> write_ok])
             /\ unrecorded' = IF write_ok THEN unrecorded \ {key}
                              ELSE unrecorded \cup {key}
             /\ rows' = IF write_ok
                        THEN [rows EXCEPT ![tracker.csv_path] =
                                Append(rows[tracker.csv_path], url)]
                        ELSE rows
             /\ pc' = IF rec.raised THEN "raised" ELSE "used"
    /\ UNCHANGED <<aux, config, out_dir, dirs, url_list, index, attempt,
                   downloaded_count, failed_count, summary, subfolder_index,
                   run_no, n_collect, n_sleep, shard_log, status, prev, input,
                   outcome, run_clean, seed>>

NextTracker ==
    \/ TkNew
    \/ TkRecord

InitTracker ==
    InitWith([runs |-> 0, len |-> 0, urls |-> TRACKER_URLS,
              per_folder |-> {1}, retries |-> {1},
              headers |-> {"std", "nourl"}, on_disk |-> FALSE,
              retry_delays |-> {RETRY_DELAY},
              gemini_retries |-> {MAX_RETRIES},
              gemini_delays |-> {GEMINI_DELAY}, videos |-> {NoVideo},
              seed_rows |-> MaxInitRows, records |-> MaxRecords,
              extra |-> NoExtra])

SpecTracker == InitTracker /\ [][NextTracker]_vars

\* the extractors on their own
\* URLExtractor().extract_from_file(path)
Extract ==
    /\ src_file # NoSrc
    /\ ~extracted.done
    /\ extracted' = [done |-> TRUE, raised |-> extract(src_file).raised,
                     urls |-> extract(src_file).urls,
                     column |-> IF HasFirstFrame(src_file)
                                THEN find_url_column(FirstFrame(src_file))
                                ELSE 0,
                     file_type |-> IF src_file.exists
                                   THEN check_file_type(src_file)
                                   ELSE "none"]
    /\ UNCHANGED <<config, tree, run, history, src_file, legacy_urls, timing,
                 gemini, more>>

\* GetTiktokVideo(path, ...)._get_url_list(path), on a text file
GetUrlList ==
    /\ src_file.exists
    /\ src_file.kind = "text"
    /\ ~legacy_urls.done
    /\ legacy_urls' =
         [done |-> TRUE, raised |-> FALSE, urls |-> get_url_list(src_file),
          column |-> IF HasFirstFrame(src_file)
                     THEN legacy_find_url_column(FirstFrame(src_file))
                     ELSE 0,
          file_type |-> "none"]
    /\ UNCHANGED <<config, tree, run, history, src_file, extracted, timing,
                 gemini, more>>

NextExtract ==
    \/ Extract
    \/ GetUrlList

InitExtract ==
    InitWith([runs |-> 0, len |-> 0, urls |-> {}, per_folder |-> {1},
              retries |-> {1}, headers |-> {}, on_disk |-> TRUE,
              retry_delays |-> {RETRY_DELAY},
              gemini_retries |-> {MAX_RETRIES},
              gemini_delays |-> {GEMINI_DELAY}, videos |-> {NoVideo},
              seed_rows |-> 0, records |-> 0,
              extra |-> NoExtra])

SpecExtract == InitExtract /\ [][NextExtract]_vars

(***************************************************************************)
(* Properties                                                              *)
(***************************************************************************)
\* the records of a tracking file, header included
RowCount(file) == IF file = NoFile THEN 0 ELSE Len(reader(file).rows)

\* the data rows of a tracking file
DataRows(file) == IF RowCount(file) = 0 THEN 0 ELSE RowCount(file) - 1

\* the shard of the 0-based position i, as the specification states it
ShardOf(i) == (i \div max_videos_per_folder) + 1

InRun == pc \in {"loop", "collect", "sleep", "returned"} /\ url_list # <<>>

\* the previous run ended with every URL fetched and recorded, and this
\* run has the same URL list
SecondRun == InRun /\ prev.clean /\ prev.urls = url_list

\* C1: after a run in which every fetch succeeded and every record was
\* written, a run over the same URL list never calls the collaborator,
\* counts no download and no failure, and leaves every tracking file with
\* the rows it had.
C1_Idempotence ==
    SecondRun =>
        /\ n_collect = 0
        /\ downloaded_count = 0
        /\ failed_count = 0
        /\ \A s \in SHARDS : RowCount(files[s]) = RowCount(prev.files[s])
        /\ pc = "returned" =>
              /\ summary.success
              /\ summary.downloaded = 0
              /\ summary.failed = 0

C1_Witness ==
    /\ SecondRun
    /\ pc = "returned"
    /\ url_list = <<U_COMMA, U_PLAIN>>
    /\ RowCount(files[1]) > 1

\* C2: whenever the run is inside _download_single for a position, the URL
\* of that position was in no row of the shard's tracking file when the
\* position was reached: a tracked URL is never handed to the collaborator.
C2_TrackedNeverFetched ==
    pc \in {"collect", "sleep"} =>
        url_list[index + 1] \notin Range(rows[ShardOf(index)])

\* a later run skips a URL tracked by an earlier run that was not clean
C2_Witness ==
    /\ run_no = 2
    /\ ~prev.clean
    /\ pc = "loop"
    /\ index = 2
    /\ status = <<"SKIPPED", "FETCHING">> \/ status = <<"FAILED", "SKIPPED">>

\* what happens to a URL whose every attempt fails, n attempts allowed
FailTrace(n, shard) ==
    <<[op |-> "check", shard |-> shard]>>
    \o Concat([k \in 1..(n - 1) |->
                 <<[op |-> "collect", dest |-> shard],
                   [op |-> "sleep", secs |-> retry_delay]>>])
    \o <<[op |-> "collect", dest |-> shard]>>

NoRecord(evs) == \A k \in 1..Len(evs) : evs[k].op # "record"

\* C3: a URL whose every attempt raises a download error is attempted
\* exactly max_retries times, with a sleep of retry_delay between two
\* consecutive attempts and none after the last; nothing is raised, and
\* failed counts that URL once.
C3_RetryExhaustion ==
    /\ outcome = "download_error" => pc # "raised"
    /\ (pc \in {"loop", "returned"} /\ index >= 1 /\ max_retries >= 1
        /\ status[index] = "FAILED")
          => events = FailTrace(max_retries, ShardOf(index - 1))
    /\ InRun => failed_count =
                   Cardinality({k \in 1..Len(status) : status[k] = "FAILED"})

C3_Witness ==
    /\ pc = "loop"
    /\ index = 1
    /\ status[1] = "FAILED"
    /\ max_retries = 3
    /\ Len(events) = 6
    /\ failed_count = 1

Terminal == {"SKIPPED", "SUCCESS", "FAILED"}

Completed ==
    /\ pc = "returned"
    /\ summary.success
    /\ summary.total = Len(url_list)
    /\ Len(status) = Len(url_list)
    /\ \A k \in 1..Len(status) : status[k] \in Terminal

\* C4: whatever download errors and failed records occur, a run that has
\* entered the loop ends with every URL skipped, downloaded or failed and
\* returns a summary with success = True; and the terminal state of a URL
\* does not change during the run.
C4_FailureIsolation ==
    /\ (pc = "loop") ~> Completed
    /\ [][\A k \in 1..Len(status) :
            (status[k] \in Terminal /\ run_no' = run_no)
                => status'[k] = status[k]]_vars

C4_Witness ==
    /\ Completed
    /\ status = <<"FAILED", "SUCCESS">>
    /\ unrecorded # {}

\* C5: the URL at the 0-based position i is checked, fetched and recorded
\* in shard (i div N) + 1 and nowhere else; the shards of the positions
\* start at 1 and never decrease; five URLs with N = 2 use the shards
\* 1, 1, 2, 2, 3.
C5_ShardAssignment ==
    /\ \A k \in 1..Len(shard_log) :
          shard_log[k] = ((k - 1) \div max_videos_per_folder) + 1
    /\ shard_log # <<>> => shard_log[1] = 1
    /\ \A k \in 2..Len(shard_log) : shard_log[k - 1] <= shard_log[k]
    /\ \A k \in 1..Len(events) :
          IF events[k].op = "collect"
          THEN events[k].dest = ShardOf(Len(shard_log) - 1)
          ELSE events[k].op \in {"check", "record"}
                  => events[k].shard = ShardOf(Len(shard_log) - 1)
    /\ InRun => \A s \in SHARDS :
          load_existing_urls(files[s]) \subseteq
              {url_list[k] : k \in {j \in 1..Len(url_list) :
                                       ShardOf(j - 1) = s}}
    /\ (pc = "returned" /\ Len(url_list) = 5 /\ max_videos_per_folder = 2)
          => shard_log = <<1, 1, 2, 2, 3>>

C5_Witness ==
    /\ pc = "returned"
    /\ shard_log = <<1, 1, 2, 2, 3>>
    /\ status = <<"SUCCESS", "FAILED", "SUCCESS", "SKIPPED", "SUCCESS">>

\* C6: no tracking file ever has more data rows than max_videos_per_folder.
C6_ShardCapacity ==
    \A s \in SHARDS : DataRows(files[s]) <= max_videos_per_folder

\* this step is a record_download whose append failed
WriteFailed ==
    /\ pc = "collect"
    /\ events' # <<>>
    /\ events'[Len(events')].op = "record"
    /\ ~events'[Len(events')].ok

\* this step reaches a position whose download was never recorded
ReachUnrecorded ==
    /\ pc = "loop"
    /\ index < Len(url_list)
    /\ <<ShardOf(index), url_list[index + 1]>> \in unrecorded
    /\ pc' # "killed"

\* C9: a failed append of record_download raises nothing, leaves the
\* tracking file as it was and lets download_all go on with the next URL;
\* a tracker constructed later on that file reports the URL unprocessed,
\* and a run that reaches it downloads it again.
C9_WriteFailure ==
    /\ [][WriteFailed =>
            /\ files' = files
            /\ pc' = "loop"
            /\ index' = index + 1]_vars
    /\ [](\A key \in unrecorded :
            ~is_processed(DownloadTracker(key[1], files[key[1]]).existing_urls,
                          key[2]))
    /\ [][(ReachUnrecorded /\ max_retries >= 1) =>
            /\ pc' = "collect"
            /\ status'[index + 1] = "FETCHING"]_vars

C9_Witness ==
    /\ run_no = 2
    /\ n_collect = 0
    /\ pc = "collect"
    /\ <<subfolder_index, url_list[index + 1]>> \in unrecorded

\* the strings is_processed is asked about: the URLs, and strings close to
\* what the tracking file holds
QUERIES ==
    TRACKER_URLS
    \cup {<<>>, HTTP, URL_KEY, VIDEO_PATH_KEY, <<"p">>, WriteField(U_COMMA),
          WriteField(U_QUOTE), U_PLAIN \o <<CR>>, VideoPath(1, U_PLAIN)}

\* the tracking file has the url column
HasUrlColumn == seed.header \in {"none", "std"}

\* the non-empty url fields of the rows found before the first tracker
SeedUrls ==
    IF seed.header = "std"
    THEN {seed.rows[k].url : k \in 1..Len(seed.rows)} \ {<<>>, restval}
    ELSE {}

\* the URLs appended under the url column by record_download
Recorded == IF HasUrlColumn THEN Range(rows[1]) ELSE {}

C8_MalformedRows ==
    pc = "fresh" =>
        /\ \A v \in tracker.existing_urls : Truthy(v)
        /\ tracker.existing_urls = SeedUrls \cup Recorded

C8_Witness ==
    /\ pc = "fresh"
    /\ seed.header = "std"
    /\ seed.rows = <<S_EMPTY_URL, S_URL_ONLY>>
    /\ tracker.existing_urls = {U_PLAIN}
    /\ events = <<>>

ExtractionFailed == input.kind # "none"

\* C10: when the input is missing, or its extraction raises or yields no
\* URL, download_all returns success = False with downloaded = 0 and
\* failed = 0, calls the collaborator never, and creates nothing.
C10_ExtractionFailure ==
    /\ [](ExtractionFailed =>
            /\ pc = "returned"
            /\ ~summary.success
            /\ summary.downloaded = 0
            /\ summary.failed = 0
            /\ n_collect = 0)
    /\ [][ExtractionFailed' /\ run_no' # run_no => tree' = tree]_vars

C10_Witness ==
    /\ ExtractionFailed
    /\ input.exists
    /\ input.kind = "text"
    /\ run_no = 1
    /\ ~out_dir
    /\ pc = "returned"

\* the URLs of the run that a tracker hit has skipped
Skipped == Cardinality({k \in 1..Len(status) : status[k] = "SKIPPED"})

\* this step resolves the URL at the current position
Resolves == Running /\ pc' \in {"loop", "returned"} /\ index' = index + 1

\* C11: during a run downloaded + failed + skipped is the number of URLs
\* resolved so far; a skipped URL changes neither counter, any other
\* resolved URL adds one to exactly one of them; the summary reports the
\* counters, and its total is the length of the URL list and their sum.
C11_SummaryCounts ==
    /\ [](InRun =>
            /\ downloaded_count + failed_count + Skipped = index
            /\ index = Cardinality({k \in 1..Len(status) :
                                      status[k] \in Terminal}))
    /\ []((pc = "returned" /\ url_list # <<>>) =>
            /\ summary.total = Len(url_list)
            /\ summary.downloaded = downloaded_count
            /\ summary.failed = failed_count
            /\ summary.downloaded + summary.failed + Skipped = summary.total)
    /\ [][Resolves =>
            IF status'[index + 1] = "SKIPPED"
            THEN downloaded_count' = downloaded_count
                 /\ failed_count' = failed_count
            ELSE \/ /\ downloaded_count' = downloaded_count + 1
                    /\ failed_count' = failed_count
                 \/ /\ downloaded_count' = downloaded_count
                    /\ failed_count' = failed_count + 1]_vars

C11_Witness ==
    /\ pc = "returned"
    /\ run_no = 2
    /\ status = <<"SKIPPED", "FAILED">>
    /\ summary.total = 2
    /\ summary.downloaded = 0
    /\ summary.failed = 1

\* C12: an exception of collect that is no TikTokDownloadError leaves
\* _download_single with that call: the run is raised at once, without a
\* sleep and without another call of the collaborator; and nothing but such
\* an exception raises out of the retry loop.
C12_OtherErrorPropagates ==
    /\ [][(pc = "collect" /\ outcome' = "other_error") =>
            /\ pc' = "raised"
            /\ n_collect' = n_collect + 1]_vars
    /\ [](pc = "raised" => outcome = "other_error")
    /\ [][pc = "raised" => (run_no' = run_no + 1 /\ n_collect' = 0)]_vars

\* the second attempt for a URL raises it, after a retried download error
C12_Witness ==
    /\ pc = "raised"
    /\ outcome = "other_error"
    /\ n_collect = 2
    /\ dirs = {1}
    /\ rows[1] = <<>>

\* C13: extract_from_file never returns an empty list: when no URL is
\* found, it raises.
C13_NeverEmpty ==
    extracted.done => (extracted.raised \/ extracted.urls # <<>>)

\* C14: every element extract_from_file returns is a string that starts
\* with http, and every element the legacy _get_url_list returns starts
\* with http:// or https://.
C14_HttpPrefix ==
    /\ \A k \in 1..Len(extracted.urls) :
          /\ extracted.urls[k] \notin {<<>>, NaN, IntCell}
          /\ Len(extracted.urls[k]) >= 4
          /\ SubSeq(extracted.urls[k], 1, 4) = <<"h", "t", "t", "p">>
    /\ \A k \in 1..Len(legacy_urls.urls) :
          LET u == legacy_urls.urls[k]
          IN  \/ Len(u) >= 7 /\ SubSeq(u, 1, 7) =
                    <<"h", "t", "t", "p", ":", "/", "/">>
              \/ Len(u) >= 8 /\ SubSeq(u, 1, 8) =
                    <<"h", "t", "t", "p", "s", ":", "/", "/">>

\* a column whose cells are not all URLs, taken by both extractors
C14_Witness ==
    /\ extracted.done
    /\ legacy_urls.done
    /\ extracted.urls = <<U_PLAIN, U_FULL>>
    /\ legacy_urls.urls = <<U_FULL>>

(***************************************************************************)
(* the rate limit of collect: time in whole seconds                        *)
(***************************************************************************)
\* wrapper, up to the call of func: the time since last_called[0] is
\* slept off if it is shorter than the delay, and the body starts
WrapperEnter ==
    /\ at = "caller"
    /\ index < limits.len
    /\ LET elapsed == now - last_called
           sleep_time == RATE_LIMIT_DELAY - elapsed
           start == IF elapsed < RATE_LIMIT_DELAY THEN now + sleep_time
                    ELSE now
       IN  /\ start <= MaxTime
           /\ now' = start
           /\ gap' = IF body_end = NoBody THEN NoGap ELSE start - body_end.t
    /\ at' = "body"
    /\ UNCHANGED <<config, tree, pc, url_list, index, attempt,
                   downloaded_count, failed_count, summary, subfolder_index,
                   tracker, history, src_file, extracted, legacy_urls, more,
                   gemini, last_called, body_end>>

\* the body of collect returns a video after some time: the wrapper sets
\* last_called[0], and _download_single returns; the next URL is taken up
CollectReturns ==
    /\ at = "body"
    /\ \E took \in 0..1 :
         /\ now + took <= MaxTime
         /\ now' = now + took
         /\ last_called' = now + took
         /\ body_end' = [t |-> now + took, how |-> "returned"]
    /\ at' = "caller"
    /\ index' = index + 1
    /\ attempt' = 0
    /\ UNCHANGED <<config, tree, pc, url_list, downloaded_count,
                   failed_count, summary, subfolder_index, tracker, history,
                   src_file, extracted, legacy_urls, more, gemini, gap>>

\* the body of collect raises a TikTokDownloadError after some time: the
\* wrapper is left before last_called[0] is set; _download_single goes to
\* sleep if attempts remain, and gives the URL up if not
CollectRaises ==
    /\ at = "body"
    /\ \E took \in 0..1 :
         /\ now + took <= MaxTime
         /\ now' = now + took
         /\ body_end' = [t |-> now + took, how |-> "raised"]
    /\ IF retry_after(attempt, max_retries)
       THEN /\ at' = "retry_sleep"
            /\ UNCHANGED <<index, attempt>>
       ELSE /\ at' = "caller"
            /\ index' = index + 1
            /\ attempt' = 0
    /\ UNCHANGED <<config, tree, pc, url_list, downloaded_count,
                   failed_count, summary, subfolder_index, tracker, history,
                   src_file, extracted, legacy_urls, more, gemini,
                   last_called, gap>>

\* time.sleep(self.config.retry_delay) returns, and the next attempt begins
RetrySleep ==
    /\ at = "retry_sleep"
    /\ now + retry_delay <= MaxTime
    /\ now' = now + retry_delay
    /\ attempt' = attempt + 1
    /\ at' = "caller"
    /\ UNCHANGED <<config, tree, pc, url_list, index, downloaded_count,
                   failed_count, summary, subfolder_index, tracker, history,
                   src_file, extracted, legacy_urls, more, gemini, last_called,
                   body_end,
                   gap>>

\* a second goes by in download_all, between two calls of collect
Tick ==
    /\ at = "caller"
    /\ index < limits.len
    /\ now < MaxTime
    /\ now' = now + 1
    /\ UNCHANGED <<config, tree, run, history, src_file, extracted,
                   legacy_urls, more, last_called, at, body_end, gap,
                   gemini>>

NextRate ==
    \/ WrapperEnter
    \/ CollectReturns
    \/ CollectRaises
    \/ RetrySleep
    \/ Tick

InitRate ==
    InitWith([runs |-> 0, len |-> MaxLen, urls |-> {}, per_folder |-> {1},
              retries |-> MAX_RETRIES_CHOICES, headers |-> {},
              on_disk |-> FALSE, retry_delays |-> {0, RETRY_DELAY},
              gemini_retries |-> {MAX_RETRIES},
              gemini_delays |-> {GEMINI_DELAY}, videos |-> {NoVideo},
              seed_rows |-> 0, records |-> 0,
              extra |-> NoExtra])

SpecRate == InitRate /\ [][NextRate]_vars

(***************************************************************************)
(* several TikTokVideoCollector instances under the one rate_limit wrapper *)
(***************************************************************************)
\* the rate_limit_delay values the instances are constructed with: none,
\* the default, and a longer one
COLLECTOR_DELAYS == {0, RATE_LIMIT_DELAY, 3}

\* @rate_limit(delay=1.0): the delay is fixed when the class is defined
decorator_delay(c) == RATE_LIMIT_DELAY

\* some instance's collect(url, ...) is called: the wrapper sleeps until
\* delay seconds have passed since last_called[0], the one cell of the
\* closure of the decorated function, and enters the body
CollectorEnter ==
    /\ at = "caller"
    /\ \E c \in COLLECTORS :
         LET elapsed == now - last_called
             sleep_time == decorator_delay(c) - elapsed
             start == IF elapsed < decorator_delay(c) THEN now + sleep_time
                      ELSE now
         IN  /\ start <= MaxTime
             /\ now' = start
             /\ slept' = start - now
             /\ caller' = c
             /\ gap' = IF body_end = NoBody THEN NoGap
                       ELSE start - body_end.t
    /\ at' = "body"
    /\ UNCHANGED <<config, tree, run, history, src_file, extracted,
                   legacy_urls, gemini, last_called, body_end,
                   rate_limit_delay, own_end, parsing, labeller,
                   compare>>

\* the body returns a video after some time, and the wrapper sets
\* last_called[0]
CollectorReturns ==
    /\ at = "body"
    /\ \E took \in 0..1 :
         /\ now + took <= MaxTime
         /\ now' = now + took
         /\ last_called' = now + took
         /\ body_end' = [t |-> now + took, how |-> "returned"]
         /\ own_end' = [own_end EXCEPT ![caller] = now + took]
    /\ at' = "caller"
    /\ caller' = NoCollector
    /\ UNCHANGED <<config, tree, run, history, src_file, extracted,
                   legacy_urls, gemini, gap, rate_limit_delay, slept,
                   parsing, labeller,
                   compare>>

\* the body raises after some time, and the wrapper is left before
\* last_called[0] is set
CollectorRaises ==
    /\ at = "body"
    /\ \E took \in 0..1 :
         /\ now + took <= MaxTime
         /\ now' = now + took
         /\ body_end' = [t |-> now + took, how |-> "raised"]
    /\ at' = "caller"
    /\ caller' = NoCollector
    /\ UNCHANGED <<config, tree, run, history, src_file, extracted,
                   legacy_urls, gemini, last_called, gap, rate_limit_delay,
                   own_end, slept, parsing, labeller,
                   compare>>

NextCollectors ==
    \/ CollectorEnter
    \/ CollectorReturns
    \/ CollectorRaises
    \/ Tick

InitCollectors ==
    InitWith([runs |-> 0, len |-> MaxLen, urls |-> {}, per_folder |-> {1},
              retries |-> {1}, headers |-> {}, on_disk |-> FALSE,
              retry_delays |-> {RETRY_DELAY},
              gemini_retries |-> {MAX_RETRIES},
              gemini_delays |-> {GEMINI_DELAY}, videos |-> {NoVideo},
              seed_rows |-> 0, records |-> 0,
              extra |-> [NoExtra EXCEPT
                           !.collector_delays = COLLECTOR_DELAYS]])

SpecCollectors == InitCollectors /\ [][NextCollectors]_vars

(***************************************************************************)
(* LabelResult.parse_from_response                                         *)
(***************************************************************************)
\* the two labels, written with one letter for each character: "H" for
\* the first character of the label "qualified", "G" for its second, and
\* "B" for the character that negates it
QUALIFIED == <<"H", "G">>
UNQUALIFIED == <<"B", "H", "G">>

\* the characters str.strip() takes off
STRIPPED == {" ", "\t", CR, LF}

\* str.strip()
RECURSIVE lstrip(_)
lstrip(s) ==
    IF s # <<>> /\ Head(s) \in STRIPPED THEN lstrip(Tail(s)) ELSE s
RECURSIVE rstrip(_)
rstrip(s) ==
    IF s # <<>> /\ s[Len(s)] \in STRIPPED
    THEN rstrip(SubSeq(s, 1, Len(s) - 1))
    ELSE s
strip(s) == rstrip(lstrip(s))

\* str.split("-"): the stretches between the hyphens, empty ones kept
RECURSIVE split_from(_, _)
split_from(s, part) ==
    IF s = <<>> THEN <<part>>
    ELSE IF Head(s) = "-" THEN <<part>> \o split_from(Tail(s), <<>>)
    ELSE split_from(Tail(s), Append(part, Head(s)))
split(s) == split_from(s, <<>>)

\* a label that is none of the two becomes "unqualified"
valid_label_kept(label) == label
valid_label(label) ==
    IF label \notin {QUALIFIED, UNQUALIFIED} THEN UNQUALIFIED ELSE label

parse_from_response(text) ==
    LET cleaned == strip(text)
        parts == split(cleaned)
        labels == [i \in 1..Len(parts) |-> strip(parts[i])]
        four == IF Len(labels) # 4
                THEN <<UNQUALIFIED, UNQUALIFIED, UNQUALIFIED, UNQUALIFIED>>
                ELSE labels
        checked == [i \in 1..4 |-> valid_label(four[i])]
        score == IF \A i \in 1..4 : checked[i] = QUALIFIED
                 THEN QUALIFIED ELSE UNQUALIFIED
    IN  [dimension_1 |-> checked[1], dimension_2 |-> checked[2],
         dimension_3 |-> checked[3], dimension_4 |-> checked[4],
         raw_response |-> text, final_score |-> score]

\* the parts the responses are made of: the two labels, bare and with
\* white space around them, nothing, and other text
RESPONSE_PARTS ==
    {QUALIFIED, UNQUALIFIED, <<" ">> \o QUALIFIED,
     UNQUALIFIED \o <<LF>>, <<>>, <<"x">>}
\* the most parts of a response
MaxParts == 5

RECURSIVE JoinParts(_)
JoinParts(ps) ==
    IF Len(ps) = 1 THEN ps[1] ELSE ps[1] \o <<"-">> \o JoinParts(Tail(ps))

\* the responses of the model: parts joined by hyphens
RESPONSES ==
    {JoinParts(ps) :
       ps \in UNION {[1..n -> RESPONSE_PARTS] : n \in 1..MaxParts}}

\* LabelResult.parse_from_response(response) returns
ParseFromResponse ==
    /\ label_result = NoLabelResult
    /\ label_result' = parse_from_response(response)
    /\ UNCHANGED <<config, tree, run, history, src_file, extracted,
                   legacy_urls, timing, gemini, collectors, response,
                   labeller, compare>>

NextParse == ParseFromResponse

InitParse ==
    InitWith([runs |-> 0, len |-> 0, urls |-> {}, per_folder |-> {1},
              retries |-> {1}, headers |-> {}, on_disk |-> FALSE,
              retry_delays |-> {RETRY_DELAY},
              gemini_retries |-> {MAX_RETRIES},
              gemini_delays |-> {GEMINI_DELAY}, videos |-> {NoVideo},
              seed_rows |-> 0, records |-> 0,
              extra |-> [NoExtra EXCEPT !.responses = RESPONSES]])

SpecParse == InitParse /\ [][NextParse]_vars

(***************************************************************************)
(* label_entire_videos                                                     *)
(***************************************************************************)
\* config.VIDEO_EXTENSIONS
VIDEO_EXTENSIONS ==
    {<<".", "m", "p", "4">>, <<".", "a", "v", "i">>, <<".", "m", "o", "v">>,
     <<".", "m", "k", "v">>, <<".", "f", "l", "v">>, <<".", "w", "m", "v">>}

\* os.path.splitext: the extension begins at the last dot, unless only
\* dots come before it
splitext(name) ==
    LET dots == {i \in DOMAIN name : name[i] = "."}
        last == CHOOSE i \in dots : \A j \in dots : j <= i
    IN  IF dots # {} /\ (\E j \in 1..(last - 1) : name[j] # ".")
        THEN <<SubSeq(name, 1, last - 1), SubSeq(name, last, Len(name))>>
        ELSE <<name, <<>>>>

\* filename.startswith('.') or filename.startswith('._')
hidden(name) == name # <<>> /\ name[1] = "."

\* the files the loop takes up
taken_up_all(name) == TRUE
taken_up(name) ==
    ~hidden(name) /\ lower(splitext(name)[2]) \in VIDEO_EXTENSIONS

\* the texts a label is compared with: "not labelled" and "labelling
\* failed", one letter for each character; the label the name of the
\* copy gets, and the text before it
UNLABELLED == <<"W", "P", "Z">>
LABEL_FAILED == <<"P", "Q", "S", "C", "S", "P">>
UNDEFINED_LABEL == <<"W", "D", "Y", "P", "Q">>
LABEL_MARK == <<"-", "P", "Q", "-">>

\* the values raw_gemini_label holds: a str, or the LabelResult that
\* label_video_with_gemini returns
StrValue(text) == [type |-> "str", text |-> text, result |-> NoLabelResult]
LabelValue(r) == [type |-> "LabelResult", text |-> <<>>, result |-> r]

\* raw_gemini_label != text: a LabelResult is no str, and the __eq__ of
\* the dataclass does not compare with one
ne_str(v, text) == v.type # "str" \/ v.text # text
\* raw_gemini_label.split: a LabelResult has no such attribute
has_split(v) == v.type = "str"

\* what label_video_with_gemini gives as seen by its caller: the
\* LabelResult of the response, or its text
returned_as_text(r) == StrValue(r.raw_response)
returned(r) == LabelValue(r)

\* result_entry as the loop sets it up
NewEntry ==
    [status |-> "failed", error |-> "unknown", output_dir |-> <<>>,
     info |-> FALSE, new_filename |-> <<>>, label |-> StrValue(<<>>),
     final_score |-> <<>>]

\* the body of the loop for a file that is taken up, given what the file
\* system and the labelling answer: the entry of the file, and whether
\* its folder was made and the copy written
process_video(filename, client, a) ==
    LET parts == splitext(filename)
        original_base_name == parts[1]
        failed(entry, error, made) ==
            [entry |-> [entry EXCEPT !.error = error], made |-> made,
             copied |-> FALSE]
    IN  IF ~a.isfile THEN failed(NewEntry, "missing", FALSE)
        ELSE IF a.getsize = "OSError" THEN failed(NewEntry, "getsize", FALSE)
        ELSE IF a.getsize = "zero" THEN failed(NewEntry, "zero", FALSE)
        ELSE IF ~a.makedirs THEN failed(NewEntry, "makedirs", FALSE)
        ELSE
        LET in_folder == [NewEntry EXCEPT !.output_dir = original_base_name]
        IN  IF client /\ a.label.raises
            THEN failed(in_folder, "GeminiError", TRUE)
            ELSE
            LET raw_gemini_label ==
                    IF client
                    THEN returned(parse_from_response(a.label.response))
                    ELSE StrValue(UNLABELLED)
                scored == ne_str(raw_gemini_label, LABEL_FAILED)
                          /\ ne_str(raw_gemini_label, UNLABELLED)
                labels == IF scored /\ has_split(raw_gemini_label)
                          THEN split(raw_gemini_label.text) ELSE <<>>
                score == IF /\ scored
                            /\ Len(labels) = 4
                            /\ \A i \in 1..4 : strip(labels[i]) = QUALIFIED
                         THEN QUALIFIED ELSE UNQUALIFIED
                final_filename ==
                    original_base_name \o LABEL_MARK \o UNDEFINED_LABEL
                    \o parts[2]
            IN  IF scored /\ ~has_split(raw_gemini_label)
                THEN failed(in_folder, "AttributeError", TRUE)
                ELSE IF ~a.copy2 THEN failed(in_folder, "copy2", TRUE)
                ELSE [entry |-> [in_folder EXCEPT
                                   !.status = "success",
                                   !.info = TRUE,
                                   !.new_filename = final_filename,
                                   !.label = raw_gemini_label,
                                   !.final_score = score],
                      made |-> TRUE, copied |-> TRUE]

\* results[filename] = result_entry
set_item(d, key, value) ==
    IF \E i \in DOMAIN d : d[i].key = key
    THEN [i \in DOMAIN d |->
            IF d[i].key = key THEN [key |-> key, value |-> value] ELSE d[i]]
    ELSE Append(d, [key |-> key, value |-> value])

\* the file names of the input folder
N_MP4 == <<"a", ".", "m", "p", "4">>
N_AVI == <<"a", ".", "A", "V", "I">>
N_HIDDEN == <<".", "b", ".", "m", "p", "4">>
N_TXT == <<"c", ".", "t", "x", "t">>
N_BARE == <<"m", "p", "4">>
FILENAMES == {N_MP4, N_AVI, N_HIDDEN, N_TXT, N_BARE}
\* the most files of the input folder
MaxFiles == 2
\* os.listdir(input_folder): the names, in any order
LISTINGS ==
    {l \in UNION {[1..n -> FILENAMES] : n \in 0..MaxFiles} :
       \A i, j \in DOMAIN l : i # j => l[i] # l[j]}

\* the responses of the model to a video: four times "qualified", one
\* "unqualified" among them, and other text
R_ALL == JoinParts(<<QUALIFIED, QUALIFIED, QUALIFIED, QUALIFIED>>)
R_ONE == JoinParts(<<QUALIFIED, UNQUALIFIED, QUALIFIED, QUALIFIED>>)
R_TEXT == <<"x">>
LABEL_RESPONSES == {R_ALL, R_ONE, R_TEXT}

\* what the file system and label_video_with_gemini answer for one file:
\* it is no file; its size cannot be read; it is empty; its folder cannot
\* be made; the labelling raises; the labelling returns and the copy
\* fails or is written
Answer(isfile, getsize, makedirs, raises, text, copy2) ==
    [isfile |-> isfile, getsize |-> getsize, makedirs |-> makedirs,
     label |-> [raises |-> raises, response |-> text], copy2 |-> copy2]
ANSWERS ==
    {Answer(FALSE, "positive", TRUE, FALSE, R_ALL, TRUE),
     Answer(TRUE, "OSError", TRUE, FALSE, R_ALL, TRUE),
     Answer(TRUE, "zero", TRUE, FALSE, R_ALL, TRUE),
     Answer(TRUE, "positive", FALSE, FALSE, R_ALL, TRUE),
     Answer(TRUE, "positive", TRUE, TRUE, <<>>, TRUE)}
    \cup {Answer(TRUE, "positive", TRUE, FALSE, r, c) :
            r \in LABEL_RESPONSES, c \in BOOLEAN}

\* label_entire_videos is called: without the input folder it returns;
\* the output folder is made, or os.makedirs raises; the client is set
\* up, or the labelling is done without
LabellerStart ==
    /\ lab_pc = "idle"
    /\ IF ~input_exists
       THEN /\ lab_pc' = "returned"
            /\ UNCHANGED <<gemini_client, next_file>>
       ELSE \E made \in BOOLEAN :
              IF ~made
              THEN /\ lab_pc' = "raised_makedirs"
                   /\ UNCHANGED <<gemini_client, next_file>>
              ELSE /\ lab_pc' = "loop"
                   /\ gemini_client' \in BOOLEAN
                   /\ next_file' = 1
    /\ UNCHANGED <<config, tree, run, history, src_file, extracted,
                   legacy_urls, timing, gemini, collectors, parsing, compare,
                   input_exists, listing, results, subfolders, copies,
                   summary_json, answers>>

\* one pass of the loop over os.listdir(input_folder)
ProcessFile ==
    /\ lab_pc = "loop"
    /\ next_file <= Len(listing)
    /\ LET filename == listing[next_file]
       IN  IF ~taken_up(filename)
           THEN UNCHANGED <<results, subfolders, copies, answers>>
           ELSE \E a \in ANSWERS :
                  LET p == process_video(filename, gemini_client, a)
                  IN  /\ results' = set_item(results, filename, p.entry)
                      /\ answers' = set_item(answers, filename, a)
                      /\ subfolders' =
                            IF p.made
                            THEN subfolders \cup {splitext(filename)[1]}
                            ELSE subfolders
                      /\ copies' =
                            IF p.copied
                            THEN copies \cup
                                   {[folder |-> p.entry.output_dir,
                                     name |-> p.entry.new_filename,
                                     of |-> filename]}
                            ELSE copies
    /\ next_file' = next_file + 1
    /\ UNCHANGED <<config, tree, run, history, src_file, extracted,
                   legacy_urls, timing, gemini, collectors, parsing, compare,
                   input_exists, listing, gemini_client, lab_pc,
                   summary_json>>

\* after the loop: generate_html_report(results, ...) if there are
\* results; it writes the report, or raises
Report ==
    /\ lab_pc = "loop"
    /\ next_file > Len(listing)
    /\ IF results = <<>>
       THEN lab_pc' = "summary"
       ELSE lab_pc' \in {"summary", "raised_report"}
    /\ UNCHANGED <<config, tree, run, history, src_file, extracted,
                   legacy_urls, timing, gemini, collectors, parsing, compare,
                   input_exists, listing, gemini_client, next_file, results,
                   subfolders, copies, summary_json, answers>>

\* json.dump(results, f, ...) into processing_summary.json; a failure is
\* printed
WriteSummary ==
    /\ lab_pc = "summary"
    /\ \E written \in BOOLEAN :
         summary_json' = IF written THEN <<results>> ELSE <<>>
    /\ lab_pc' = "done"
    /\ UNCHANGED <<config, tree, run, history, src_file, extracted,
                   legacy_urls, timing, gemini, collectors, parsing, compare,
                   input_exists, listing, gemini_client, next_file, results,
                   subfolders, copies, answers>>

NextLabeller ==
    \/ LabellerStart
    \/ ProcessFile
    \/ Report
    \/ WriteSummary

InitLabeller ==
    InitWith([runs |-> 0, len |-> 0, urls |-> {}, per_folder |-> {1},
              retries |-> {1}, headers |-> {}, on_disk |-> FALSE,
              retry_delays |-> {RETRY_DELAY},
              gemini_retries |-> {MAX_RETRIES},
              gemini_delays |-> {GEMINI_DELAY}, videos |-> {NoVideo},
              seed_rows |-> 0, records |-> 0,
              extra |-> [NoExtra EXCEPT !.input_exists = BOOLEAN,
                                        !.listings = LISTINGS]])

SpecLabeller == InitLabeller /\ [][NextLabeller]_vars
\* every call the function makes returns or raises
SpecLabellerFair == SpecLabeller /\ WF_vars(NextLabeller)

(***************************************************************************)
(* GetTiktokVideo.download_video beside TikTokBatchDownloader.download_all *)
(***************************************************************************)
\* max_videos_per_folder = 100 in download_video, and the defaults of
\* retry_collect
LEGACY_MAX_VIDEOS_PER_FOLDER == 100
LEGACY_MAX_RETRIES == 3
LEGACY_DELAY == 5
\* the defaults of DownloadConfig
DEFAULT_MAX_VIDEOS_PER_FOLDER == 100
DEFAULT_MAX_RETRIES == 3

\* the shards a comparison touches
COMPARED_SHARDS == 1..2

\* the answer of the collaborator to its n-th call: a video, a download
\* error, or another exception; a video once the script is over
AnswerNo(script, n) == IF n <= Len(script) THEN script[n] ELSE "video"

\* what a downloader has done so far: the tracking files, the calls of
\* collect and the sleeps in order, the number of calls of collect and of
\* appends to a tracking file, and whether an exception has ended it
Begin(c) ==
    [files |-> [s \in COMPARED_SHARDS |->
                  IF s = 1 THEN SeedFile(c.seed) ELSE NoFile],
     trace |-> <<>>, calls |-> 0, records |-> 0, raised |-> FALSE]
CollectEvent(url, dest) ==
    [op |-> "collect", url |-> url, dest |-> dest, secs |-> 0]
SleepEvent(secs) == [op |-> "sleep", url |-> <<>>, dest |-> 0, secs |-> secs]
Called(st, url, dest) ==
    [st EXCEPT !.calls = @ + 1, !.trace = Append(@, CollectEvent(url, dest))]
Slept(st, secs) == [st EXCEPT !.trace = Append(@, SleepEvent(secs))]

\* the read of the tracking file of a shard raises after so many rows
BadAfter(c, shard) ==
    IF shard = 1 /\ c.seed # NoSeed THEN c.bad ELSE NeverFails

\* DownloadTracker._load_existing_urls when the read may raise: the set
\* is assigned once the whole file is read, so an exception leaves it
\* empty
tracker_existing_urls(file, bad) ==
    IF file # NoFile /\ bad # NeverFails THEN {}
    ELSE load_existing_urls(file)

\* _download_single with the defaults: the outcome, and what has been
\* done
RECURSIVE download_single(_, _, _, _, _)
download_single(url, dest, attempt_no, st, script) ==
    IF attempt_no >= DEFAULT_MAX_RETRIES
    THEN [success |-> FALSE, st |-> st]
    ELSE LET answer == AnswerNo(script, st.calls + 1)
             st1 == Called(st, url, dest)
         IN  IF answer = "video" THEN [success |-> TRUE, st |-> st1]
             ELSE IF answer = "other"
             THEN [success |-> FALSE, st |-> [st1 EXCEPT !.raised = TRUE]]
             ELSE download_single(
                     url, dest, attempt_no + 1,
                     IF retry_after(attempt_no, DEFAULT_MAX_RETRIES)
                     THEN Slept(st1, RETRY_DELAY) ELSE st1,
                     script)

\* the loop of download_all from the URL at position i on
RECURSIVE download_all_from(_, _, _)
download_all_from(i, st, c) ==
    IF st.raised \/ i > Len(c.urls) THEN st
    ELSE
    LET url == c.urls[i]
        shard == subfolder_index_of(i - 1, DEFAULT_MAX_VIDEOS_PER_FOLDER)
        file == st.files[shard]
        existing_urls == tracker_existing_urls(file, BadAfter(c, shard))
        made == ensure_csv_exists(file)
        st1 == [st EXCEPT !.files[shard] = made]
    IN  IF is_processed(existing_urls, url)
        THEN download_all_from(i + 1, st1, c)
        ELSE
        LET result == download_single(url, shard, 0, st1, c.script)
            rec == record_download(
                       made, existing_urls, url, VideoPath(shard, url),
                       (result.st.records + 1) \notin c.failing_writes)
        IN  IF result.success
            THEN download_all_from(
                    i + 1,
                    [result.st EXCEPT !.files[shard] = rec.file,
                                      !.records = @ + 1],
                    c)
            ELSE download_all_from(i + 1, result.st, c)

\* download_all on a list of URLs: nothing is made for an empty list
download_all(c) ==
    IF c.urls = <<>> THEN Begin(c) ELSE download_all_from(1, Begin(c), c)

\* a loader that drops the URLs read before an exception
legacy_load_all_or_nothing(file, bad) ==
    IF file = NoFile
    THEN [existing_urls |-> {},
          file |-> writerow(<<URL_KEY, VIDEO_PATH_KEY>>)]
    ELSE [existing_urls |-> IF bad # NeverFails THEN {}
                            ELSE load_existing_urls(file),
          file |-> file]

\* GetTiktokVideo._load_existing_urls: a missing file is created with
\* the header row; the URLs are added row by row, and an exception keeps
\* those added before it
legacy_load_existing_urls(file, bad) ==
    IF file = NoFile
    THEN [existing_urls |-> {},
          file |-> writerow(<<URL_KEY, VIDEO_PATH_KEY>>)]
    ELSE LET column == DictReaderColumn(file, URL_KEY)
             n == IF bad = NeverFails \/ bad > Len(column) THEN Len(column)
                  ELSE bad
         IN  [existing_urls |-> {column[k] : k \in {j \in 1..n :
                                                      Truthy(column[j])}},
              file |-> file]

\* GetTiktokVideo._record_download: the row is appended, or the failure
\* is logged
legacy_record_download(file, url, video_path, write_ok) ==
    IF write_ok THEN file \o writerow(<<url, video_path>>) ELSE file

\* retry_collect with its defaults
RECURSIVE retry_collect(_, _, _, _, _)
retry_collect(url, download_path, attempt_no, st, script) ==
    IF attempt_no >= LEGACY_MAX_RETRIES
    THEN [video |-> FALSE, st |-> st]
    ELSE LET answer == AnswerNo(script, st.calls + 1)
             st1 == Called(st, url, download_path)
         IN  IF answer = "video" THEN [video |-> TRUE, st |-> st1]
             ELSE IF answer = "other"
             THEN [video |-> FALSE, st |-> [st1 EXCEPT !.raised = TRUE]]
             ELSE retry_collect(
                     url, download_path, attempt_no + 1,
                     IF attempt_no < LEGACY_MAX_RETRIES - 1
                     THEN Slept(st1, LEGACY_DELAY) ELSE st1,
                     script)

\* the loop of download_video from the URL at position i on
RECURSIVE download_video_from(_, _, _)
download_video_from(i, st, c) ==
    IF st.raised \/ i > Len(c.urls) THEN st
    ELSE
    LET url == c.urls[i]
        shard == ((i - 1) \div LEGACY_MAX_VIDEOS_PER_FOLDER) + 1
        loaded == legacy_load_existing_urls(st.files[shard],
                                            BadAfter(c, shard))
        st1 == [st EXCEPT !.files[shard] = loaded.file]
    IN  IF url \in loaded.existing_urls
        THEN download_video_from(i + 1, st1, c)
        ELSE
        LET got == retry_collect(url, shard, 0, st1, c.script)
        IN  IF ~got.video
            THEN download_video_from(i + 1, got.st, c)
            ELSE download_video_from(
                    i + 1,
                    [got.st EXCEPT
                       !.files[shard] =
                          legacy_record_download(
                             loaded.file, url, VideoPath(shard, url),
                             (got.st.records + 1) \notin c.failing_writes),
                       !.records = @ + 1],
                    c)

download_video(c) == download_video_from(1, Begin(c), c)

\* what is seen of a downloader: the calls and sleeps, the tracking
\* files, and whether it was ended by an exception
Observed(st) == [trace |-> st.trace, shards |-> st.files, raised |-> st.raised]

\* the longest script of answers, and the most rows of a tracking file
\* that is there before
MaxScript == 3
MaxSeedRows == 1
\* a list that goes over the first shard: one URL a hundred times, and
\* another one
LONG_LIST ==
    [i \in 1..(LEGACY_MAX_VIDEOS_PER_FOLDER + 1) |->
        IF i <= LEGACY_MAX_VIDEOS_PER_FOLDER THEN U_PLAIN ELSE U_COMMA]

Case(urls, sd, bad, script, failing) ==
    [urls |-> urls, seed |-> sd, bad |-> bad, script |-> script,
     failing_writes |-> failing]
CASES ==
    {Case(l, sd, b, sc, w) :
       l \in SeqsUpTo(URLS, MaxLen),
       sd \in {s \in Seeds({"std"}, MaxSeedRows) : s # NoSeed},
       b \in NeverFails..MaxSeedRows,
       sc \in SeqsUpTo({"video", "error", "other"}, MaxScript),
       w \in SUBSET {1}}
    \cup {Case(l, NoSeed, NeverFails, sc, w) :
            l \in SeqsUpTo(URLS, MaxLen),
            sc \in SeqsUpTo({"video", "error", "other"}, MaxScript),
            w \in SUBSET {1}}
    \cup {Case(LONG_LIST, NoSeed, NeverFails, sc, {}) :
            sc \in SeqsUpTo({"video", "error"}, 1)}

\* both downloaders are run on the case
Replay ==
    /\ ~replayed.done
    /\ replayed' = [done |-> TRUE,
                    main |-> Observed(download_all(legacy_case)),
                    legacy |-> Observed(download_video(legacy_case))]
    /\ UNCHANGED <<config, tree, run, history, src_file, extracted,
                   legacy_urls, timing, gemini, collectors, parsing,
                   labeller, legacy_case>>

NextCompare == Replay

InitCompare ==
    InitWith([runs |-> 0, len |-> 0, urls |-> {}, per_folder |-> {1},
              retries |-> {1}, headers |-> {}, on_disk |-> FALSE,
              retry_delays |-> {RETRY_DELAY},
              gemini_retries |-> {MAX_RETRIES},
              gemini_delays |-> {GEMINI_DELAY}, videos |-> {NoVideo},
              seed_rows |-> 0, records |-> 0,
              extra |-> [NoExtra EXCEPT !.cases = CASES]])

SpecCompare == InitCompare /\ [][NextCompare]_vars

(***************************************************************************)
(* retry_on_gemini_failure and label_video_with_gemini                     *)
(***************************************************************************)
\* "rate limit"
RATE_LIMIT_KEY ==
    <<"r", "a", "t", "e", " ", "l", "i", "m", "i", "t">>
\* "quota"
QUOTA_KEY ==
    <<"q", "u", "o", "t", "a">>
\* "auth"
AUTH_KEY ==
    <<"a", "u", "t", "h">>
\* "credential"
CREDENTIAL_KEY ==
    <<"c", "r", "e", "d", "e", "n", "t", "i", "a", "l">>

\* "Video file not found: "
NOT_FOUND_PREFIX ==
    <<"V", "i", "d", "e", "o", " ", "f", "i", "l", "e", " ", "n", "o", "t",
      " ", "f", "o", "u", "n", "d", ":", " ">>
\* "Video analysis failed: "
ANALYSIS_FAILED_PREFIX ==
    <<"V", "i", "d", "e", "o", " ", "a", "n", "a", "l", "y", "s", "i", "s",
      " ", "f", "a", "i", "l", "e", "d", ":", " ">>

\* the paths of the video files
\* "v.mp4"
V_PLAIN ==
    <<"v", ".", "m", "p", "4">>
\* "author/v.mp4"
V_AUTHOR ==
    <<"a", "u", "t", "h", "o", "r", "/", "v", ".", "m", "p", "4">>
VIDEOS == {V_PLAIN, V_AUTHOR}

\* the messages of the errors of the API
\* "Timed out"
E_TIMEOUT ==
    <<"T", "i", "m", "e", "d", " ", "o", "u", "t">>
\* "Rate Limit hit"
E_RATE ==
    <<"R", "a", "t", "e", " ", "L", "i", "m", "i", "t", " ", "h", "i", "t">>
\* "Quota exceeded"
E_QUOTA ==
    <<"Q", "u", "o", "t", "a", " ", "e", "x", "c", "e", "e", "d", "e", "d">>
\* "Unauthorized"
E_AUTH ==
    <<"U", "n", "a", "u", "t", "h", "o", "r", "i", "z", "e", "d">>
\* "Invalid Credentials"
E_CREDENTIAL ==
    <<"I", "n", "v", "a", "l", "i", "d", " ", "C", "r", "e", "d", "e", "n",
      "t", "i", "a", "l", "s">>
\* "Quota exceeded for oauth client"
E_QUOTA_AUTH ==
    <<"Q", "u", "o", "t", "a", " ", "e", "x", "c", "e", "e", "d", "e", "d",
      " ", "f", "o", "r", " ", "o", "a", "u", "t", "h", " ", "c", "l", "i",
      "e", "n", "t">>
API_ERRORS == {E_TIMEOUT, E_RATE, E_QUOTA, E_AUTH, E_CREDENTIAL, E_QUOTA_AUTH}

\* "rate limit" in error_msg or "quota" in error_msg
is_rate_limit(error_msg) ==
    contains(error_msg, RATE_LIMIT_KEY) \/ contains(error_msg, QUOTA_KEY)

\* "auth" in error_msg or "credential" in error_msg
is_auth(error_msg) ==
    contains(error_msg, AUTH_KEY) \/ contains(error_msg, CREDENTIAL_KEY)

RECURSIVE Pow2(_)
Pow2(n) == IF n = 0 THEN 1 ELSE 2 * Pow2(n - 1)

\* a wait that is the same after every attempt
sleep_time_constant(delay, attempt_no) == delay

\* sleep_time = delay * (2**attempt)
sleep_time(delay, attempt_no) == delay * Pow2(attempt_no)

\* what the body of label_video_with_gemini raises: FileNotFoundError for
\* a missing file; for a file that is there, the error of the API call
\* wrapped into a GeminiError
BodyErrors ==
    IF video_exists
    THEN {[kind |-> "GeminiError", msg |-> ANALYSIS_FAILED_PREFIX \o e] :
            e \in API_ERRORS}
    ELSE {[kind |-> "FileNotFoundError",
           msg |-> NOT_FOUND_PREFIX \o label_path]}

\* the except clause of the wrapper, and the end of the loop after it: the
\* next place of the call, the sleep it enters, and what it raises
Handle(e, attempt_no, retries, delay) ==
    LET error_msg == lower(e.msg)
        again == attempt_no < retries - 1
    IN  IF is_rate_limit(error_msg) /\ again
        THEN [pc |-> "sleeping", slept |-> <<sleep_time(delay, attempt_no)>>,
              raises |-> NoOutcome]
        ELSE IF is_auth(error_msg)
        THEN [pc |-> "raised", slept |-> <<>>,
              raises |-> [kind |-> "GeminiAuthenticationError", msg |-> e.msg]]
        ELSE IF again
        THEN [pc |-> "sleeping", slept |-> <<sleep_time(delay, attempt_no)>>,
              raises |-> NoOutcome]
        ELSE [pc |-> "raised", slept |-> <<>>,
              raises |-> [kind |-> "GeminiError", msg |-> e.msg]]

\* label_video_with_gemini(client, video_path) is called: the wrapper
\* enters its loop, or leaves it at once if there is no attempt to make
LabelCall ==
    /\ call_pc = "idle"
    /\ label_path # NoVideo
    /\ retry_attempt' = 0
    /\ IF gemini_max_retries > 0
       THEN call_pc' = "calling" /\ observed' = observed
       ELSE /\ call_pc' = "raised"
            /\ observed' = [kind |-> "GeminiError", msg |-> <<>>]
    /\ UNCHANGED <<config, tree, run, history, src_file, extracted,
                   legacy_urls, more, timing, gemini_max_retries, gemini_delay,
                   label_path, video_exists, invocations, raised_msgs,
                   sleeps>>

\* func returns a LabelResult, and the wrapper returns it
BodyReturns ==
    /\ call_pc = "calling"
    /\ video_exists
    /\ invocations' = invocations + 1
    /\ call_pc' = "returned"
    /\ observed' = [kind |-> "LabelResult", msg |-> <<>>]
    /\ UNCHANGED <<config, tree, run, history, src_file, extracted,
                   legacy_urls, more, timing, gemini_max_retries, gemini_delay,
                   label_path, video_exists, retry_attempt, raised_msgs,
                   sleeps>>

\* func raises, and the wrapper handles the exception
BodyRaises ==
    /\ call_pc = "calling"
    /\ \E e \in BodyErrors :
         LET h == Handle(e, retry_attempt, gemini_max_retries, gemini_delay)
         IN  /\ raised_msgs' = Append(raised_msgs, e.msg)
             /\ call_pc' = h.pc
             /\ sleeps' = sleeps \o h.slept
             /\ observed' = h.raises
    /\ invocations' = invocations + 1
    /\ UNCHANGED <<config, tree, run, history, src_file, extracted,
                   legacy_urls, more, timing, gemini_max_retries, gemini_delay,
                   label_path, video_exists, retry_attempt>>

\* time.sleep(sleep_time) returns: the next attempt
BackoffOver ==
    /\ call_pc = "sleeping"
    /\ retry_attempt' = retry_attempt + 1
    /\ call_pc' = "calling"
    /\ UNCHANGED <<config, tree, run, history, src_file, extracted,
                   legacy_urls, more, timing, gemini_max_retries, gemini_delay,
                   label_path, video_exists, invocations, raised_msgs,
                   sleeps, observed>>

NextGemini ==
    \/ LabelCall
    \/ BodyReturns
    \/ BodyRaises
    \/ BackoffOver

InitGemini ==
    InitWith([runs |-> 0, len |-> 0, urls |-> {}, per_folder |-> {1},
              retries |-> {1}, headers |-> {}, on_disk |-> FALSE,
              retry_delays |-> {RETRY_DELAY},
              gemini_retries |-> 0..MaxGeminiRetries,
              gemini_delays |-> {GEMINI_DELAY, 2 * GEMINI_DELAY},
              videos |-> VIDEOS, seed_rows |-> 0, records |-> 0,
              extra |-> NoExtra])

SpecGemini == InitGemini /\ [][NextGemini]_vars

(***************************************************************************)
(* C15                                                                     *)
(***************************************************************************)
\* the rows a csv reader finds in a tracking file, the header row included
RowsOf(file) == IF file = NoFile THEN <<>> ELSE reader(file).rows

IsPrefix(a, b) == Len(a) <= Len(b) /\ SubSeq(b, 1, Len(a)) = a

\* a step that writes a row: record_download in a run, or on a tracker alone
Records == pc = "collect" \/ pc' \in {"used", "raised"}

\* C15: tracking files are append-only.  In every step, a tracking file
\* that exists still exists afterwards, its old content is the beginning of
\* its new content, and its old row sequence is a prefix of its new row
\* sequence; every step that is no record_download (the construction of a
\* tracker on an existing file, is_processed, the start and the end of a
\* run) leaves an existing file as it is; and the files a successful run
\* left are prefixes, row by row, of the files of the next run at any time.
C15_AppendOnly ==
    /\ [][\A s \in SHARDS :
            files[s] # NoFile =>
              /\ files'[s] # NoFile
              /\ IsPrefix(files[s], files'[s])
              /\ IsPrefix(RowsOf(files[s]), RowsOf(files'[s]))
              /\ (~Records => files'[s] = files[s])]_vars
    /\ [](\A s \in SHARDS :
            prev.files[s] # NoFile =>
              IsPrefix(RowsOf(prev.files[s]), RowsOf(files[s])))

\* in the second run a tracker has been constructed on the file that the
\* first run left with a header and one row, and a row has been appended
C15_Witness ==
    /\ run_no = 2
    /\ pc = "loop"
    /\ index = 1
    /\ status[1] = "SUCCESS"
    /\ tracker.csv_path = 1
    /\ Len(RowsOf(prev.files[1])) = 2
    /\ Len(RowsOf(files[1])) = 3
    /\ IsPrefix(RowsOf(prev.files[1]), RowsOf(files[1]))

(***************************************************************************)
(* C16                                                                     *)
(***************************************************************************)
\* the moves of one URL
MOVES ==
    {<<"PENDING", "SKIPPED">>, <<"PENDING", "FETCHING">>,
     <<"FETCHING", "SUCCESS">>, <<"FETCHING", "FAILED">>}

\* the run goes on over this step
SameRun == run_no' = run_no /\ pc' \notin {"killed", "raised"}

\* C16: within a run each URL moves only PENDING -> SKIPPED, PENDING ->
\* FETCHING -> SUCCESS or PENDING -> FETCHING -> FAILED, and only the URL at
\* the current position moves; the URLs before the current position are
\* resolved and those after it are PENDING, so the list is resolved in
\* order; the URL at the current position is FETCHING exactly while
\* _download_single is at work on it, so at most one URL is FETCHING; and
\* no other URL changes state while one sleeps between two attempts.
C16_StateMachine ==
    /\ [][SameRun =>
            \A k \in 1..Len(status) :
              status'[k] # status[k] =>
                /\ <<status[k], status'[k]>> \in MOVES
                /\ k = index + 1]_vars
    /\ [](Running \/ pc = "returned" =>
            /\ Len(status) = Len(url_list)
            /\ \A k \in 1..Len(status) :
                 /\ k <= index => status[k] \in Terminal
                 /\ k = index + 1 =>
                      status[k] = (IF pc = "loop" THEN "PENDING"
                                   ELSE "FETCHING")
                 /\ k > index + 1 => status[k] = "PENDING"
            /\ Cardinality({k \in 1..Len(status) :
                              status[k] = "FETCHING"}) <= 1)
    /\ [][pc = "sleep" /\ SameRun =>
            \A k \in 1..Len(status) :
              k # index + 1 => status'[k] = status[k]]_vars

\* the first URL of the list was skipped, and the second one sleeps
\* between two attempts
C16_Witness ==
    /\ pc = "sleep"
    /\ index = 1
    /\ status = <<"SKIPPED", "FETCHING">>

(***************************************************************************)
(* C17                                                                     *)
(***************************************************************************)
\* the non-empty values in the url column of the rows of a tracking file
UrlValues(file) ==
    {v \in Range(DictReaderColumn(file, URL_KEY)) : v # <<>> /\ v # restval}

\* the last thing the run did was a record_download whose append succeeded
JustRecorded ==
    /\ events # <<>>
    /\ events[Len(events)].op = "record"
    /\ events[Len(events)].ok

HEADER_ROW == <<URL_KEY, VIDEO_PATH_KEY>>

\* the header row is the first row of the file
HeaderFirst(file) ==
    /\ file # NoFile
    /\ RowsOf(file) # <<>>
    /\ RowsOf(file)[1] = HEADER_ROW

\* the non-empty values that the data rows of a file have in the column
\* that its first row names url
DataUrlValues(file) ==
    LET rws == RowsOf(file)
        hdr == IF rws = <<>> THEN <<>> ELSE rws[1]
        cols == {i \in 1..Len(hdr) : hdr[i] = URL_KEY}
    IN  {rws[k][i] : <<k, i>> \in
           {ki \in (2..Len(rws)) \X cols :
              /\ ki[2] <= Len(rws[ki[1]])
              /\ rws[ki[1]][ki[2]] # <<>>}}

\* a DownloadTracker has just been constructed
Constructed == pc' = "fresh"

UrlColumn(file) ==
    LET rws == RowsOf(file)
    IN  [k \in 1..(Len(rws) - 1) |->
           IF rws[k + 1] = <<>> THEN <<>> ELSE rws[k + 1][1]]

NoRepeat(s) == \A i, j \in 1..Len(s) : s[i] = s[j] => i = j

\* C19: in every state reached by runs against one output root, killed,
\* failed or complete, no tracking file has two data rows with the same
\* url; every data row is a URL that a run appended, in the order of the
\* appends.
C19_OneRowPerUrl ==
    \A s \in SHARDS :
      files[s] # NoFile =>
        /\ NoRepeat(UrlColumn(files[s]))
        /\ UrlColumn(files[s]) = rows[s]

\* a list that names one URL twice in one shard: the first was downloaded
\* and recorded, the second was skipped, and the file holds one data row
C19_Witness ==
    /\ pc = "returned"
    /\ Len(url_list) = 2
    /\ url_list[1] = url_list[2]
    /\ status = <<"SUCCESS", "SKIPPED">>
    /\ shard_log = <<1, 1>>
    /\ Len(UrlColumn(files[1])) = 1

(***************************************************************************)
(* C20                                                                     *)
(***************************************************************************)
\* C20: whenever the body of collect starts and a body has run before in
\* the process, at least the delay of the rate limit has passed since
\* that earlier body ended, whether it returned or raised.
C20_MinimumGap ==
    at = "body" /\ body_end # NoBody => gap >= RATE_LIMIT_DELAY

\* what the wrapper does keep: the delay has passed since the end of the
\* last body, if that body returned normally
RateLimitAfterReturn ==
    at = "body" /\ body_end.how = "returned" => gap >= RATE_LIMIT_DELAY

(***************************************************************************)
(* C21                                                                     *)
(***************************************************************************)
Ended == call_pc \in {"returned", "raised"}

\* C21: a call of label_video_with_gemini on a video file that does not
\* exist ends with FileNotFoundError for the caller, after one invocation
\* of the function and without any sleep.
C21_FileNotFound ==
    Ended /\ ~video_exists /\ gemini_max_retries > 0 =>
      /\ observed.kind = "FileNotFoundError"
      /\ invocations = 1
      /\ sleeps = <<>>

(***************************************************************************)
(* C22                                                                     *)
(***************************************************************************)
\* the sleeps after the first n failed attempts: delay * 2^k after the
\* attempt k, counted from 0
Backoff(n) == [k \in 1..n |-> gemini_delay * Pow2(k - 1)]

\* none of the errors raised so far is an authentication error
NoAuthErrors ==
    \A k \in 1..Len(raised_msgs) : ~is_auth(lower(raised_msgs[k]))

\* C22: as long as no attempt has raised an authentication error, the
\* sleeps taken are delay * 2^k after the failed attempt k, one after every
\* failed attempt but the last of max_retries; when every attempt has
\* failed, the function has been invoked exactly max_retries times, no
\* sleep follows the last attempt, and GeminiError is raised; when an
\* attempt succeeds, its result is returned, after one sleep for each
\* failed attempt before it; and once the call has ended the function is
\* not invoked again.
C22_Backoff ==
    /\ [](NoAuthErrors =>
            /\ sleeps = Backoff(Len(sleeps))
            /\ invocations <= gemini_max_retries
            /\ call_pc = "calling" =>
                 /\ invocations = retry_attempt
                 /\ Len(sleeps) = invocations
                 /\ Len(raised_msgs) = invocations
            /\ call_pc = "sleeping" =>
                 /\ Len(sleeps) = invocations
                 /\ Len(raised_msgs) = invocations
                 /\ invocations < gemini_max_retries
            /\ call_pc = "raised" =>
                 /\ invocations = gemini_max_retries
                 /\ Len(raised_msgs) = gemini_max_retries
                 /\ sleeps = Backoff(gemini_max_retries - 1)
                 /\ observed.kind = "GeminiError"
            /\ call_pc = "returned" =>
                 /\ invocations = Len(raised_msgs) + 1
                 /\ sleeps = Backoff(Len(raised_msgs))
                 /\ observed.kind = "LabelResult")
    /\ [][Ended => invocations' = invocations /\ sleeps' = sleeps]_vars

\* four attempts have failed, one of them on a rate limit, with sleeps of
\* 2, 4 and 8 seconds between them
C22_Witness ==
    /\ call_pc = "raised"
    /\ observed.kind = "GeminiError"
    /\ NoAuthErrors
    /\ gemini_max_retries = 4
    /\ gemini_delay = 2
    /\ invocations = 4
    /\ sleeps = <<2, 4, 8>>
    /\ \E k \in 1..Len(raised_msgs) : is_rate_limit(lower(raised_msgs[k]))

(***************************************************************************)
(* C30                                                                     *)
(***************************************************************************)
\* the wrapped function has just raised an authentication error
AuthRaised ==
    /\ call_pc = "calling"
    /\ Len(raised_msgs') = Len(raised_msgs) + 1
    /\ is_auth(lower(raised_msgs'[Len(raised_msgs')]))

\* C30: whenever the wrapped function raises an error whose message
\* contains auth or credential, GeminiAuthenticationError is raised right
\* after that attempt, without a sleep and without another invocation,
\* also when the message mentions rate limit or quota.
C30_AuthNotRetried ==
    [][AuthRaised =>
         /\ call_pc' = "raised"
         /\ observed'.kind = "GeminiAuthenticationError"
         /\ sleeps' = sleeps]_vars

\* what the wrapper does keep: an authentication error whose message
\* mentions neither rate limit nor quota is not retried
AuthOnlyNotRetried ==
    [][AuthRaised /\ ~is_rate_limit(lower(raised_msgs'[Len(raised_msgs')])) =>
         /\ call_pc' = "raised"
         /\ observed'.kind = "GeminiAuthenticationError"
         /\ sleeps' = sleeps]_vars

(***************************************************************************)
(* C23                                                                     *)
(***************************************************************************)
\* the pairs of an encoding and a separator, by their places in the lists
PAIRS == (1..Len(ENCODINGS)) \X (1..Len(SEPARATORS))

\* the pair a comes before the pair b when the encoding is the outer loop
Before(a, b) == a[1] < b[1] \/ (a[1] = b[1] /\ a[2] <= b[2])

\* the pairs whose parse succeeds with at least one valid URL
Yielding(file) == {a \in PAIRS : Attempt(file, a[1], a[2]) # <<>>}

\* the URLs of the first yielding pair
FirstYield(file) ==
    LET a == CHOOSE a \in Yielding(file) :
                  \A b \in Yielding(file) : Before(a, b)
    IN  Attempt(file, a[1], a[2])

\* the encodings under which the text of the file has a match
Matching(file) ==
    {e \in 1..Len(ENCODINGS) : findall(decode(file, ENCODINGS[e]), 1) # <<>>}

\* the matches under the first such encoding, none if there is no such
FirstMatch(file) ==
    IF Matching(file) = {} THEN <<>>
    ELSE LET e == CHOOSE e \in Matching(file) : \A d \in Matching(file) : e <= d
         IN  findall(decode(file, ENCODINGS[e]), 1)

ExtractedText ==
    /\ extracted.done
    /\ src_file.exists
    /\ src_file.kind = "text"
    /\ extracted.file_type # "zip"

\* C23: what extract_from_file returns for a text file is the URL list of
\* the first pair, with the encoding as the outer and the separator as
\* the inner loop, whose parse succeeds with a valid URL; pairs that raise
\* or yield nothing are passed over; only if no pair yields a URL, it is
\* the list of regex matches under the first encoding that has any.
C23_FallbackOrder ==
    ExtractedText =>
      /\ ~extracted.raised
      /\ extracted.urls = (IF Yielding(src_file) # {}
                           THEN FirstYield(src_file)
                           ELSE FirstMatch(src_file))

\* the third separator of the first encoding yields one URL and the first
\* separator of the second encoding another one, the pairs before them
\* raise, and the text holds a third URL: the first of the three is
\* returned
C23_Witness ==
    /\ ExtractedText
    /\ Len(src_file.parses) = PairCount
    /\ src_file.parses[1] = ParseError
    /\ src_file.parses[2] = ParseError
    /\ src_file.parses[3] = F_OTHER
    /\ src_file.parses[4] = F_URLS
    /\ findall(src_file.content, 1) = <<U_SECURE>>
    /\ extracted.urls = <<U_PLAIN>>

(***************************************************************************)
(* C24                                                                     *)
(***************************************************************************)
Least(S) == IF S = {} THEN 0 ELSE CHOOSE j \in S : \A k \in S : j <= k

\* the columns named url, and those with url or link in their name
Exact(df) == {j \in 1..Len(df.columns) : df.columns[j].name = URL_KEY}
Keyword(df) ==
    {j \in 1..Len(df.columns) :
       \/ contains(lower(df.columns[j].name), URL_KEY)
       \/ contains(lower(df.columns[j].name), LINK_KEY)}

\* the first five values of the first column that are not missing
Sample(df) ==
    LET present == SelectSeq(df.columns[1].cells, LAMBDA v : v # NaN)
    IN  [k \in 1..(IF Len(present) < 5 THEN Len(present) ELSE 5) |->
           present[k]]

\* one of them is a string that starts with http
LooksLikeUrls(df) ==
    \E k \in 1..Len(Sample(df)) :
       /\ Sample(df)[k] \notin {NaN, IntCell}
       /\ Len(Sample(df)[k]) >= 4
       /\ SubSeq(Sample(df)[k], 1, 4) = <<"h", "t", "t", "p">>

HasRows(df) == df.columns # <<>> /\ df.columns[1].cells # <<>>

\* C24: in a frame, _find_url_column takes the column named url if there
\* is one, also behind another column with url or link in its name; else
\* the first column with url or link in its name, whatever the case of
\* its letters; else the first column if one of its first five values
\* that are not missing is a string starting with http; else none, and
\* the parse then yields no URL.  The legacy _find_url_column takes the
\* same column, but in the third step the first column of any frame that
\* has rows.
C24_UrlColumn ==
    /\ extracted.done /\ HasFirstFrame(src_file) =>
         LET df == FirstFrame(src_file)
         IN  /\ extracted.column =
                  (IF Exact(df) # {} THEN Least(Exact(df))
                   ELSE IF Keyword(df) # {} THEN Least(Keyword(df))
                   ELSE IF HasRows(df) /\ LooksLikeUrls(df) THEN 1
                   ELSE 0)
             /\ extracted.column = 0 => Attempt(src_file, 1, 1) = <<>>
    /\ legacy_urls.done /\ HasFirstFrame(src_file) =>
         LET df == FirstFrame(src_file)
         IN  legacy_urls.column =
               (IF Exact(df) # {} THEN Least(Exact(df))
                ELSE IF Keyword(df) # {} THEN Least(Keyword(df))
                ELSE IF HasRows(df) THEN 1
                ELSE 0)

\* a frame whose first column is named Link and whose second column is
\* named url: both extractors take the second
C24_Witness ==
    /\ extracted.done
    /\ legacy_urls.done
    /\ HasFirstFrame(src_file)
    /\ Len(FirstFrame(src_file).columns) = 2
    /\ FirstFrame(src_file).columns[1].name = <<"L", "i", "n", "k">>
    /\ FirstFrame(src_file).columns[2].name = URL_KEY
    /\ FirstFrame(src_file).columns[1].cells = <<U_FULL>>
    /\ extracted.column = 2
    /\ legacy_urls.column = 2

\* the only URL of the first column is its sixth value: the extractor
\* takes no column, and the legacy one the first
SixthValueCase ==
    /\ extracted.done
    /\ legacy_urls.done
    /\ FirstFrame(src_file) = F_SIXTH
    /\ extracted.column = 0
    /\ legacy_urls.column = 1

(***************************************************************************)
(* C25                                                                     *)
(***************************************************************************)
\* extract_from_file has taken the archive path
ArchivePath == extracted.file_type = "zip"

\* C25: an existing input is handled as an archive if and only if it
\* begins with the magic number of a ZIP local file header; a file that
\* is no archive, also one whose text begins with PK and one that is not
\* valid UTF-8, is handled as text.
C25_ContainerDetection ==
    extracted.done /\ src_file.exists =>
      /\ ArchivePath <=> header(src_file) = ZIP_MAGIC
      /\ src_file.kind # "zip" => ~ArchivePath

\* what the detection does keep: an archive takes the archive path, and a
\* file that does not begin with PK, valid UTF-8 or not, the text path
DetectionBesidesPK ==
    extracted.done /\ src_file.exists =>
      /\ src_file.kind = "zip" => ArchivePath
      /\ head(header(src_file), 2) # PK => ~ArchivePath /\ ~extracted.raised

(***************************************************************************)
(* C26                                                                     *)
(***************************************************************************)
\* the entries with this extension that yield at least one URL, by their
\* place in the traversal
YieldingEntries(file, ext) ==
    {k \in 1..Len(file.members) :
       /\ file.members[k].ext = ext
       /\ extract_from_text_file(file.members[k]) # <<>>}

ExtractedArchive == extracted.done /\ src_file.exists /\ src_file.kind = "zip"

WHITE_SPACE == {" ", "\t", CR, LF}
QUOTES == {"'", DQUOTE}

\* the position after http:// or https:// at the position i of a text,
\* 0 if neither is there
AfterScheme(text, i) ==
    IF i + 6 <= Len(text)
       /\ SubSeq(text, i, i + 6) = <<"h", "t", "t", "p", ":", "/", "/">>
    THEN i + 7
    ELSE IF i + 7 <= Len(text)
            /\ SubSeq(text, i, i + 7) =
                 <<"h", "t", "t", "p", "s", ":", "/", "/">>
    THEN i + 8
    ELSE 0

\* the last position of the stretch from the position i on that is free
\* of the characters in stops
StretchEnd(text, i, stops) ==
    CHOOSE j \in (i - 1)..Len(text) :
       /\ \A k \in i..j : text[k] \notin stops
       /\ j = Len(text) \/ text[j + 1] \in stops

\* the positions where a scheme is followed by at least one such character
Candidates(text, stops) ==
    {i \in 1..Len(text) :
       /\ AfterScheme(text, i) # 0
       /\ StretchEnd(text, AfterScheme(text, i), stops)
            >= AfterScheme(text, i)}

\* those that do not lie within the match of an earlier one
Starts(text, stops) ==
    {i \in Candidates(text, stops) :
       \A h \in Candidates(text, stops) :
          h < i => StretchEnd(text, AfterScheme(text, h), stops) < i}

\* the elements of a set of numbers in rising order
Rising(S) ==
    CHOOSE s \in [1..Cardinality(S) -> S] :
       \A a, b \in 1..Cardinality(S) : a < b => s[a] < s[b]

\* the matches of a text in the order of the text
MatchesOf(text, stops) ==
    LET at_ == Rising(Starts(text, stops))
    IN  [n \in 1..Len(at_) |->
           SubSeq(text, at_[n],
                  StretchEnd(text, AfterScheme(text, at_[n]), stops))]

\* the matches under the first of the encodings that has any
RegexResult(file, encodings, stops) ==
    LET has == {e \in 1..Len(encodings) :
                  MatchesOf(decode(file, encodings[e]), stops) # <<>>}
    IN  IF has = {} THEN <<>>
        ELSE MatchesOf(decode(file, encodings[Least(has)]), stops)

\* the file went down the text path and the structured parse yields
\* nothing, so that the regex fallback runs
RegexRan ==
    /\ ExtractedText
    /\ extracted.file_type # "zip"
    /\ Yielding(src_file) = {}
LegacyRegexRan ==
    /\ legacy_urls.done
    /\ \A e \in 1..Len(ENCODINGS) :
          legacy_valid_urls(read_csv(src_file, ENCODINGS[e], COMMA)) = <<>>

\* C27 as stated: the regex fallback returns, in the order of the text,
\* every match of http:// or https:// followed by one or more characters
\* that are no white space, no quote and no semicolon, so that a URL with
\* a comma in it is returned whole.
C27_Original ==
    /\ RegexRan =>
         extracted.urls =
           RegexResult(src_file, ENCODINGS, WHITE_SPACE \cup QUOTES \cup {";"})
    /\ LegacyRegexRan =>
         legacy_urls.urls =
           RegexResult(src_file, LEGACY_REGEX_ENCODINGS,
                       WHITE_SPACE \cup QUOTES \cup {";"})

\* C27, amended: the regex fallback returns, in the order of the text,
\* every match of http:// or https:// followed by one or more characters
\* that are no white space, no comma, no quote and no semicolon: a URL
\* with a comma in it is returned up to the comma.
C27_RegexMatches ==
    /\ RegexRan =>
         extracted.urls =
           RegexResult(src_file, ENCODINGS,
                       WHITE_SPACE \cup QUOTES \cup {";", COMMA})
    /\ LegacyRegexRan =>
         legacy_urls.urls =
           RegexResult(src_file, LEGACY_REGEX_ENCODINGS,
                       WHITE_SPACE \cup QUOTES \cup {";", COMMA})

\* a text with four URLs, one of them with a comma in it: both extractors
\* return the four, the second up to its comma
C27_Witness ==
    /\ RegexRan
    /\ LegacyRegexRan
    /\ src_file.content = T_SEVERAL
    /\ extracted.urls = <<U_SECURE, U_FULL, U_FULL, U_SECURE>>
    /\ legacy_urls.urls = extracted.urls

(***************************************************************************)
(* C28                                                                     *)
(***************************************************************************)
\* the shard of the URL that is being resolved, or was resolved last; 0
\* before the first URL of the run is reached
CurrentShard ==
    IF pc \in {"collect", "sleep"}
    THEN (index \div max_videos_per_folder) + 1
    ELSE IF pc \in {"loop", "returned"} /\ index > 0
    THEN ((index - 1) \div max_videos_per_folder) + 1
    ELSE 0

\* the shards whose directory the run has passed to mkdir and on whose
\* tracking file it has built a tracker
Touched == {shard_log[n] : n \in 1..Len(shard_log)}

\* the shards whose directory or tracking file a step creates or changes
Affected ==
    {s \in SHARDS : \/ s \in dirs' \ dirs
                    \/ files'[s] # files[s]}

InOrder ==
    \A n \in 1..(Len(shard_log) - 1) :
       shard_log[n + 1] \in {shard_log[n], shard_log[n] + 1}

\* C28: shards are created lazily and in order.  At every point of a run
\* the shards the run has touched are exactly 1..K, K the shard of the URL
\* being resolved, they were reached in rising order, and each has its
\* directory and its tracking file, whatever became of its URLs; a step
\* creates or changes the directory and tracking file of the current shard
\* only; and a directory or tracking file that exists stays, through the
\* end of the run, its termination and the next run.
C28_LazyShards ==
    /\ [](pc \in {"loop", "collect", "sleep", "returned"} =>
            /\ Touched = 1..CurrentShard
            /\ InOrder
            /\ \A s \in Touched : s \in dirs /\ files[s] # NoFile)
    /\ [][/\ Affected \subseteq {CurrentShard'} \cup {CurrentShard}
          /\ pc # "loop" => dirs' = dirs
          /\ dirs \subseteq dirs'
          /\ \A s \in SHARDS : files[s] # NoFile => files'[s] # NoFile]_vars

\* a second run, one URL per shard, that left the first URL out as tracked
\* and failed on the second: the second shard has its directory and a
\* tracking file with nothing but the header, and nothing lies beyond it
C28_Witness ==
    /\ run_no = 2
    /\ pc = "returned"
    /\ max_videos_per_folder = 1
    /\ status = <<"SKIPPED", "FAILED">>
    /\ shard_log = <<1, 2>>
    /\ dirs = {1, 2}
    /\ Len(RowsOf(files[1])) = 2
    /\ RowsOf(files[2]) = <<HEADER_ROW>>
    /\ \A s \in SHARDS \ {1, 2} : files[s] = NoFile

(***************************************************************************)
(* C29                                                                     *)
(***************************************************************************)
\* the events of one kind since the current URL was reached
Count(op) == Cardinality({n \in 1..Len(events) : events[n].op = op})
CountNext(op) == Cardinality({n \in 1..Len(events') : events'[n].op = op})

\* a step in which the collaborator returns a video
Fetched == pc = "collect" /\ n_collect' = n_collect + 1 /\ outcome' = "video"

\* a step that ends the resolution of a URL within the run
Resolved ==
    /\ pc \in {"loop", "collect", "sleep"}
    /\ pc' = "loop"
    /\ index' = index + 1

\* C29: retry stops at the first success.  The collaborator is called at
\* most max_retries times for a URL, and at least once for a URL that is
\* not skipped; when the call in pass k of the loop (k - 1 failures before
\* it) returns a video, this is the k-th call, k - 1 sleeps lie before
\* it, no further call is made for the URL, record_download is called
\* and, if its append succeeds, the new row holds the URL and the path of
\* the video, and the downloaded count rises by one, the failed count not
\* at all.
C29_FirstSuccess ==
    /\ [](pc \in {"loop", "collect", "sleep"} /\ max_retries >= 1 =>
            /\ Count("collect") <= max_retries
            /\ pc \in {"collect", "sleep"} => Count("collect") < max_retries)
    /\ [][/\ Resolved /\ status'[index'] # "SKIPPED" /\ max_retries >= 1 =>
               CountNext("collect") \in 1..max_retries
          /\ Fetched =>
               LET url == url_list[index + 1]
                   shard == (index \div max_videos_per_folder) + 1
                   last == events'[Len(events')]
               IN  /\ CountNext("collect") = attempt + 1
                   /\ CountNext("sleep") = attempt
                   /\ \A n \in 1..Len(events) :
                         events[n].op = "sleep" =>
                           /\ n > 1
                           /\ events[n - 1].op = "collect"
                           /\ events[n].secs = retry_delay
                   /\ Resolved
                   /\ status'[index'] = "SUCCESS"
                   /\ last.op = "record"
                   /\ last.shard = shard
                   /\ Len(events') = Len(events) + 2
                   /\ events'[Len(events) + 1].op = "collect"
                   /\ downloaded_count' = downloaded_count + 1
                   /\ failed_count' = failed_count
                   /\ IF last.ok
                      THEN RowsOf(files'[shard]) =
                             Append(RowsOf(files[shard]),
                                    <<url, VideoPath(shard, url)>>)
                      ELSE files' = files]_vars

\* the third call returns the video after two failures with a sleep each,
\* and the download is recorded and counted
C29_Witness ==
    /\ pc = "loop"
    /\ index = 1
    /\ max_retries = 3
    /\ status[1] = "SUCCESS"
    /\ Count("collect") = 3
    /\ Count("sleep") = 2
    /\ [n \in 1..Len(events) |-> events[n].op] =
         <<"check", "collect", "sleep", "collect", "sleep", "collect",
           "record">>
    /\ events[7].ok
    /\ downloaded_count = 1
    /\ failed_count = 0
    /\ RowsOf(files[1]) =
         <<HEADER_ROW, <<url_list[1], VideoPath(1, url_list[1])>>>>

(***************************************************************************)
(* C39                                                                     *)
(***************************************************************************)
\* the URLs a tracker built on a shard's tracking file takes as processed
Tracked(s) == IF files[s] = NoFile THEN {} ELSE UrlValues(files[s])

\* the positions of the list with a given status
With(st) == {n \in 1..Len(status) : status[n] = st}

\* C39: with max_retries <= 0 the collaborator is never called and nothing
\* sleeps; an iteration on a URL that its shard's tracking file does not
\* hold counts the URL as failed and goes on; no step appends a row to a
\* tracking file (a missing one is created with its header only); and the
\* summary counts no download and as many failures as the list has URLs
\* that were not skipped.
C39_DegenerateBudget ==
    /\ [](max_retries <= 0 =>
            /\ n_collect = 0
            /\ pc \notin {"collect", "sleep"}
            /\ Count("collect") = 0
            /\ Count("sleep") = 0
            /\ downloaded_count = 0
            /\ With("SUCCESS") = {}
            /\ pc = "returned" /\ summary.success =>
                 /\ summary.downloaded = 0
                 /\ summary.failed = Cardinality(With("FAILED"))
                 /\ With("FAILED") \cup With("SKIPPED") = 1..Len(url_list))
    /\ [][max_retries <= 0 =>
            /\ \A s \in SHARDS :
                  \/ files'[s] = files[s]
                  \/ files[s] = NoFile /\ RowsOf(files'[s]) = <<HEADER_ROW>>
            /\ pc = "loop" /\ index < Len(url_list) /\ pc' # "killed" =>
                 LET s == (index \div max_videos_per_folder) + 1
                 IN  /\ pc' = "loop"
                     /\ index' = index + 1
                     /\ IF url_list[index + 1] \in Tracked(s)
                        THEN /\ status'[index'] = "SKIPPED"
                             /\ failed_count' = failed_count
                        ELSE /\ status'[index'] = "FAILED"
                             /\ failed_count' = failed_count + 1]_vars

\* a run with a negative budget over two URLs of one shard whose tracking
\* file holds the first: one skipped, one failed, no call and no new row
C39_Witness ==
    /\ max_retries < 0
    /\ pc = "returned"
    /\ seed # NoSeed
    /\ status = <<"SKIPPED", "FAILED">>
    /\ summary = [success |-> TRUE, downloaded |-> 0, failed |-> 1,
                  total |-> 2]
    /\ n_collect = 0
    /\ files[1] = SeedFile(seed)
    /\ Len(RowsOf(files[1])) = 2

(***************************************************************************)
(* C35                                                                     *)
(***************************************************************************)
\* the data rows of the tracking files of shards 0..s of a tree together
RECURSIVE RowsUpTo(_, _)
RowsUpTo(fs, s) ==
    IF s < 0 THEN 0 ELSE DataRows(fs[s]) + RowsUpTo(fs, s - 1)

TotalRows(fs) == RowsUpTo(fs, LongLen + MaxLen + 2)

\* C35 as stated: the downloaded count of a run is the number of rows the
\* run has appended to tracking files, also when a write fails.  Every
\* step of a run raises the count by as much as the number of data rows
\* of the tree, and the summary of a completed run returns that count.
C35_Original ==
    /\ [](pc = "returned" /\ summary.success =>
            summary.downloaded = downloaded_count)
    /\ [][(/\ pc \in {"loop", "collect", "sleep"}
           /\ pc' \in {"loop", "collect", "sleep", "returned"}) =>
            downloaded_count' - downloaded_count =
              TotalRows(files') - TotalRows(files)]_vars

\* a step whose record_download does not get its row written
WriteFails ==
    /\ Fetched
    /\ events'[Len(events')].op = "record"
    /\ ~events'[Len(events')].ok

\* C35, amended: the downloaded count of a run is the number of videos
\* the collaborator returned in it.  The summary of a completed run
\* returns that count; every returned video raises it by one; and every
\* step of a run raises it by the number of rows appended, plus one if
\* the step is a record_download whose write fails: the count is the
\* number of rows appended plus the number of failed writes.
C35_CountedIsFetched ==
    /\ [](pc \in {"loop", "collect", "sleep", "returned"} =>
            /\ downloaded_count = Cardinality(With("SUCCESS"))
            /\ pc = "returned" /\ summary.success =>
                 summary.downloaded = downloaded_count)
    /\ [][/\ Fetched => downloaded_count' = downloaded_count + 1
          /\ (/\ pc \in {"loop", "collect", "sleep"}
              /\ pc' \in {"loop", "collect", "sleep", "returned"}) =>
               downloaded_count' - downloaded_count =
                 (TotalRows(files') - TotalRows(files))
                   + (IF WriteFails THEN 1 ELSE 0)]_vars

\* a first run over two URLs that returns two downloads with one row
\* written and one write failed
C35_Witness ==
    /\ run_no = 1
    /\ pc = "returned"
    /\ summary.success
    /\ summary.downloaded = 2
    /\ status = <<"SUCCESS", "SUCCESS">>
    /\ TotalRows(files) = 1
    /\ Cardinality(unrecorded) = 1

(***************************************************************************)
(* C36                                                                     *)
(***************************************************************************)
\* the shard of the position n of the list, counted from 1
ShardAt(n) == ((n - 1) \div max_videos_per_folder) + 1

\* two positions of the list with the same URL in the same shard
Repeats(i, j) ==
    /\ i < j
    /\ url_list[i] = url_list[j]
    /\ ShardAt(i) = ShardAt(j)

\* C36 as stated: within one run a URL is successfully fetched at most
\* once per shard.
C36_Original ==
    pc \in {"loop", "collect", "sleep", "returned"} =>
       \A i, j \in 1..Len(status) :
          Repeats(i, j) => ~(status[i] = "SUCCESS" /\ status[j] = "SUCCESS")

\* C36, amended: within one run a URL is fetched and recorded at most once
\* per shard.  When the loop reaches an occurrence whose URL the tracking
\* file of its shard holds (an earlier occurrence in the shard was fetched
\* and its row written), it skips it without a call of the collaborator;
\* when that file does not hold it, whatever other shards hold, the
\* occurrence is fetched (with max_retries >= 1); two occurrences in one
\* shard are both fetched successfully only if a write failed in the run.
C36_RecordedOnce ==
    /\ [](pc \in {"loop", "collect", "sleep", "returned"} =>
            \A i, j \in 1..Len(status) :
               (Repeats(i, j) /\ status[i] = "SUCCESS"
                  /\ status[j] = "SUCCESS") => ~run_clean)
    /\ [][(pc = "loop" /\ index < Len(url_list) /\ pc' # "killed") =>
            LET s == ShardAt(index + 1)
                url == url_list[index + 1]
            IN  /\ (\E i \in 1..index :
                       /\ Repeats(i, index + 1)
                       /\ status[i] = "SUCCESS"
                       /\ <<s, url>> \notin unrecorded) => url \in Tracked(s)
                /\ IF url \in Tracked(s)
                   THEN /\ status'[index + 1] = "SKIPPED"
                        /\ pc' = "loop"
                        /\ index' = index + 1
                        /\ n_collect' = n_collect
                        /\ files' = files
                   ELSE max_retries >= 1 =>
                          /\ status'[index + 1] = "FETCHING"
                          /\ pc' = "collect"]_vars

\* two URLs per shard, the same URL twice: the first is fetched and
\* recorded, the second skipped, with one call in the whole run
C36_Witness ==
    /\ run_no = 1
    /\ pc = "returned"
    /\ max_videos_per_folder = 2
    /\ Len(url_list) = 2
    /\ url_list[1] = url_list[2]
    /\ status = <<"SUCCESS", "SKIPPED">>
    /\ n_collect = 1
    /\ DataRows(files[1]) = 1

(***************************************************************************)
(* C37                                                                     *)
(***************************************************************************)
\* a step adds one call if it is a call, and one sleep if it enters one
CountedStep ==
    /\ n_collect' - n_collect = (IF pc = "collect" THEN 1 ELSE 0)
    /\ n_sleep' - n_sleep =
         (IF pc = "collect" /\ pc' = "sleep" THEN 1 ELSE 0)

\* C37: download_all terminates.  When every call of the collaborator and
\* every sleep returns, a run that has entered its loop reaches its
\* return, and at every point of it the collaborator has been called at
\* most len(urls) * max_retries times and at most
\* len(urls) * (max_retries - 1) sleeps have been entered; each step of
\* the run adds at most one call and at most one sleep to these counts,
\* a step that enters a sleep exactly one.
C37_Termination ==
    /\ [](pc \in {"loop", "collect", "sleep", "returned"} =>
            /\ n_collect <= Len(url_list) * max_retries
            /\ n_sleep <= Len(url_list) * (max_retries - 1))
    /\ (pc \in {"loop", "collect", "sleep"}) ~>
         (pc = "returned" /\ summary.success)
    /\ [][Running => CountedStep]_vars

\* a run that uses the whole budget: two URLs, three calls and two sleeps
\* for each, and the summary at the end
C37_Witness ==
    /\ pc = "returned"
    /\ max_retries = 3
    /\ Len(url_list) = 2
    /\ n_collect = 6
    /\ n_sleep = 4
    /\ summary.failed = 2

(***************************************************************************)
(* C31                                                                     *)
(***************************************************************************)
\* the time an instance's limiter state of its own would hold: the time
\* its collect last returned, and 0.0 before the first return
OwnLastCalled(c) == IF own_end[c] = NoGap THEN 0 ELSE own_end[c]

\* the sleep a limiter of the instance's own, with the instance's
\* rate_limit_delay, takes on a call entered at time t
OwnSleep(c, t) ==
    LET elapsed == t - OwnLastCalled(c)
    IN  IF elapsed < rate_limit_delay[c] THEN rate_limit_delay[c] - elapsed
        ELSE 0

\* the body of collect of an instance starts at least the instance's
\* rate_limit_delay after the instance's collect last returned
C31_OwnDelay ==
    (at = "body" /\ own_end[caller] # NoGap) =>
        now - own_end[caller] >= rate_limit_delay[caller]

\* the wrapper sleeps as the state of the calling instance alone says,
\* whatever was called through the other instances
C31_OwnState ==
    at = "body" => slept = OwnSleep(caller, now - slept)

\* C31: the spacing applied to collect is the rate_limit_delay the
\* instance was constructed with, and the last-call state of an instance
\* is not affected by the calls made through another instance.
\* The code: the delay is the 1.0 of the decorator for every instance,
\* and last_called is one cell shared by all the instances.
C31_PerInstanceLimiter == C31_OwnDelay /\ C31_OwnState

\* what the code does instead: the one delay of the decorator, measured
\* from the last return of collect of any instance
C31_SharedLimiter ==
    at = "body" =>
        /\ slept = (IF (now - slept) - last_called < RATE_LIMIT_DELAY
                    THEN RATE_LIMIT_DELAY - ((now - slept) - last_called)
                    ELSE 0)
        /\ \A c \in COLLECTORS :
              own_end[c] # NoGap => now - own_end[c] >= RATE_LIMIT_DELAY

\* an instance constructed with a delay of 3 seconds enters the body one
\* second after it last returned
C31_Witness ==
    /\ at = "body"
    /\ rate_limit_delay[caller] = 3
    /\ own_end[caller] # NoGap
    /\ now - own_end[caller] = RATE_LIMIT_DELAY

(***************************************************************************)
(* C32                                                                     *)
(***************************************************************************)
\* the places of the hyphens of the response without the white space
\* around it, and the text between two of them, or between an end of the
\* response and the nearest hyphen, without the white space around it
Inner(s) ==
    LET black == {i \in DOMAIN s : s[i] \notin STRIPPED}
    IN  IF black = {} THEN <<>>
        ELSE SubSeq(s, CHOOSE i \in black : \A j \in black : i <= j,
                       CHOOSE i \in black : \A j \in black : i >= j)
Hyphens(s) == {i \in DOMAIN s : s[i] = "-"}
PartNo(s, n) ==
    LET cut == Hyphens(s) \cup {0, Len(s) + 1}
        from == CHOOSE i \in cut : Cardinality({j \in cut : j < i}) = n - 1
        to == CHOOSE i \in cut : Cardinality({j \in cut : j < i}) = n
    IN  Inner(SubSeq(s, from + 1, to - 1))

Dimensions(r) ==
    <<r.dimension_1, r.dimension_2, r.dimension_3, r.dimension_4>>

AnswerOf(name) ==
    answers[CHOOSE i \in DOMAIN answers : answers[i].key = name].value
\* the file is there, is not empty, and its folder and its copy can be
\* written
Readable(a) ==
    a.isfile /\ a.getsize = "positive" /\ a.makedirs /\ a.copy2
\* the copies of a file in the folder named after it
OwnCopies(name) ==
    {c \in copies : c.of = name /\ c.folder = splitext(name)[1]}
AllQualified(r) == \A i \in 1..4 : Dimensions(r)[i] = QUALIFIED
\* a readable file for which label_video_with_gemini returned a result
Labelled(name) ==
    /\ gemini_client
    /\ Readable(AnswerOf(name))
    /\ ~AnswerOf(name).label.raises

\* C33: with a working client, a non-empty video for which
\* label_video_with_gemini returns a result is copied into the folder
\* named after it, its entry has the status "success", and its
\* final_score is "qualified" exactly when the four dimensions returned
\* are.
\* The code: the LabelResult returned is used as a str, and the entry
\* fails on its split.
C33_LabelledCopy ==
    \A i \in DOMAIN results :
       LET name == results[i].key
           entry == results[i].value
       IN  Labelled(name) =>
             /\ entry.status = "success"
             /\ OwnCopies(name) # {}
             /\ entry.final_score = QUALIFIED <=>
                  AllQualified(
                     parse_from_response(AnswerOf(name).label.response))

\* what the code does instead: the entry of such a video is "failed"
\* with the AttributeError, its folder is made and left empty
C33_LabelledFails ==
    \A i \in DOMAIN results :
       LET name == results[i].key
           entry == results[i].value
       IN  Labelled(name) =>
             /\ entry.status = "failed"
             /\ entry.error = "AttributeError"
             /\ entry.output_dir \in subfolders
             /\ OwnCopies(name) = {}

\* a video whose four dimensions were returned "qualified" has its entry
C33_Witness ==
    \E i \in DOMAIN results :
       /\ Labelled(results[i].key)
       /\ AnswerOf(results[i].key).label.response = R_ALL

(***************************************************************************)
(* C34                                                                     *)
(***************************************************************************)
\* the name does not begin with a dot and ends, capitals aside, with one
\* of the extensions
EndsWith(s, t) ==
    Len(t) <= Len(s) /\ SubSeq(s, Len(s) - Len(t) + 1, Len(s)) = t
Supported(name) ==
    /\ name[1] # "."
    /\ \E x \in VIDEO_EXTENSIONS : EndsWith(lower(name), x)
EntriesOf(name) == {i \in DOMAIN results : results[i].key = name}

LoopOver == lab_pc \in {"summary", "done", "raised_report"}
InLoop == lab_pc = "loop" /\ next_file <= Len(listing)

\* the entries made so far stay as they are, and the loop goes on to the
\* next file
GoesOn ==
    /\ lab_pc' = "loop"
    /\ next_file' = next_file + 1
    /\ \A i \in DOMAIN results : results'[i] = results[i]

ReadRaises == legacy_case.seed # NoSeed /\ legacy_case.bad # NeverFails

\* C38: on the same list of URLs, the same output tree and the same
\* answers of the collaborator, download_video and download_all with its
\* defaults make the same calls of collect and the same sleeps in the
\* same order, and leave the same tracking files.
\* The code: when the read of a tracking file raises after some rows,
\* download_video keeps the URLs of these rows and download_all none.
C38_Equivalent ==
    replayed.done => replayed.main = replayed.legacy

\* what holds: the two agree whenever no read of a tracking file raises,
\* and whenever it raises before the first row with a URL
C38_EquivalentWhenRead ==
    (replayed.done /\ (~ReadRaises \/ legacy_case.bad = 0)) =>
        replayed.main = replayed.legacy

\* the two were run on a list of two URLs and a tracking file with a
\* row: a URL failed three times, with two sleeps, and a row was written
C38_Witness ==
    /\ replayed.done
    /\ ~ReadRaises
    /\ legacy_case.seed # NoSeed
    /\ Len(legacy_case.urls) = 2
    /\ Len(SelectSeq(replayed.legacy.trace, LAMBDA e : e.op = "sleep")) = 2
    /\ Len(replayed.legacy.shards[1]) > Len(SeedFile(legacy_case.seed))

====
